---- MODULE Spec2Model ----
(***************************************************************************)
(* A model of the coordination kernel of randomchat-app:                   *)
(*   UserManager    (src/src/managers/UserManager.js)   the session registry*)
(*   MatchingEngine (src/src/services/MatchingEngine.js) queue and scorer   *)
(*   ChatManager    (src/unnamed/part_002)               the chat rooms     *)
(*   RandomChatServer (server.js, carried in src/scripts/start.sh)          *)
(*                                                       the dispatcher     *)
(*                                                                         *)
(* JavaScript objects are modelled as a heap: userObj and chatObj hold the *)
(* objects by identity, the Maps of the managers hold keys into them.  An  *)
(* object taken out of a Map is still there for whoever holds a reference  *)
(* (a queue entry's user, a suspended handler's match).                    *)
(*                                                                         *)
(* Time is counted in minutes.  setTimeout timers are records with the     *)
(* deadline they were armed for; a timer fires once now has reached it.    *)
(*                                                                         *)
(* The event loop runs to completion: an async function runs up to its     *)
(* await, its continuation is queued as a microtask, and the microtask     *)
(* queue is drained in order before the next timer or interval callback.   *)
(* socket.io hands each received event to its handler in a later tick, so  *)
(* the handlers of the events one socket received together all start       *)
(* before the first continuation runs.                                     *)
(***************************************************************************)
EXTENDS Integers, Sequences, FiniteSets, TLC

(***************************************************************************)
(* Bounds of the model.                                                    *)
(***************************************************************************)
NumSockets == 2
MaxUsers == 3
MaxChats == 2
MaxTime == 6
MaxInFlight == 2
MaxMsgs == 1
RoomUsers == 2
RoomMaxChats == 1
RoomMaxMsgs == 2
RoomMaxReports == 1
RoomMaxEnds == 2
RoomMaxTime == 93
CapMaxChats == 1
RegMaxUsers == 1
FlagMaxUsers == 1
FlagMaxFlags == 11
QueueMaxUsers == 1
QueueMaxFlags == 1
QueueMaxTime == 1
QueueCapExtra == 1
EngineMaxUsers == 3
RankMaxUsers == 2
RankMaxFlags == 1
RankMaxTime == 1
MatchMaxUsers == 3
MatchMaxTime == 2
ScoreMaxUsers == 2
ScoreMaxFlags == 2
ThresholdMaxUsers == 2
ThresholdMaxTime == 11
StarveMaxUsers == 2
StarveMaxFlags == 5
StarveMaxTime == 10
StaleMaxUsers == 2
StaleMaxTime == 7
ProfileMaxUsers == 1
ProfileMaxTime == 1
NormalizeMaxUsers == 2
EmitMaxUsers == 3
EmitMaxTime == 2
TrustMaxUsers == 2
TrustMaxFlags == 11
ReportMaxChats == 1
ReportMaxReports == 2
ReportMaxTime == 1
LoopMaxUsers == 12
LoopMaxTime == 2
PriorityMaxUsers == 1
PriorityMaxFlags == 11
PriorityMaxTime == 60
MemoKeywords == 6
MemoFlags == 11
MemoWait == 12
IdleMaxUsers == 2
IdleMaxTime == 45
EngineMaxTime == 2
SweepMaxChats == 2
SweepMaxTime == 45
RegMaxTime == 45
ApiMaxUsers == 2
ApiMaxChats == 2
ApiMaxEnds == 2

(***************************************************************************)
(* Program constants, in minutes.                                          *)
(***************************************************************************)
defaultSessionTimeout == 30
maxChatDuration == 60
maxHistorySize == 10000
maxMessagesPerChat == 1000
maxQueueSize == 1000
maxWaitTime == 5
defaultInactivityThreshold == 30
defaultUserInactivityThreshold == 30

Sockets == 1..NumSockets
Null == 0

VARIABLES
    now,              \* the clock, in minutes
    \* UserManager
    userObj,          \* heap of user objects, indexed by user id
    users,            \* this.users: socketId -> user id (Null: no entry)
    usersByUserId,    \* this.usersByUserId: the user ids that are keys
    sessionTimeouts,  \* this.sessionTimeouts: user id -> deadline of the stored timer
    sessionTimers,    \* pending setTimeout timers of setSessionTimeout
    \* MatchingEngine
    matchingQueue,    \* this.matchingQueue, in insertion order
    \* ChatManager
    chatObj,          \* heap of chat objects, indexed by chat id
    chats,            \* this.chats: the chat ids that are keys
    userChats,        \* this.userChats: user id -> chat id
    chatHistory,      \* this.chatHistory
    chatTimers,       \* pending setTimeout timers of setChatTimeout
    totalChats,       \* this.totalChats
    totalMessages,    \* this.totalMessages
    averageChatDuration, \* this.averageChatDuration
    \* the event loop
    microtasks,       \* continuations of suspended async calls, in the order queued
    draining,         \* the microtask queue is being drained
    \* observation
    pairCount,        \* user id -> pairs the user was produced in since last enqueued
    endReturns,       \* chat id -> what the endChat calls on it returned, in order
    lastCall          \* the last manager call and what it returned

regVars == <<userObj, users, usersByUserId, sessionTimeouts, sessionTimers>>
queueVars == <<matchingQueue>>
chatVars == <<chatObj, chats, userChats, chatHistory, chatTimers, totalChats, totalMessages, averageChatDuration>>
asyncVars == <<microtasks, draining>>
vars == <<now, userObj, users, usersByUserId, sessionTimeouts, sessionTimers,
          matchingQueue, chatObj, chats, userChats, chatHistory, chatTimers, totalChats, totalMessages, averageChatDuration,
          microtasks, draining, pairCount, endReturns, lastCall>>

(***************************************************************************)
(* Small helpers.                                                          *)
(***************************************************************************)
Min(a, b) == IF a <= b THEN a ELSE b
Max(a, b) == IF a >= b THEN a ELSE b
Abs(a) == IF a >= 0 THEN a ELSE -a
Range(s) == {s[i] : i \in 1..Len(s)}
UserIdsOf == 1..Len(userObj)
ChatIdsOf == 1..Len(chatObj)

(***************************************************************************)
(* IEEE 754 doubles, the numbers of JavaScript.  A natural number is kept  *)
(* as the sequence of its digits in base 2^14, lowest first, without       *)
(* leading zeros (zero is the empty sequence), so that the product of two  *)
(* digits fits the integers of the checker.  A double is [neg, mant, exp], *)
(* the number mant * 2^exp, negated when neg, with 2^52 <= mant < 2^53;    *)
(* zero is [FALSE, <<>>, 0].  Every operation rounds its exact result to   *)
(* the nearest double, ties to even.  Subnormals, infinities, NaN and the  *)
(* negative zero are left out: no operation of the model reaches them.     *)
(***************************************************************************)
Limb == 2^14

headOf(a) == IF a = <<>> THEN 0 ELSE a[1]
restOf(a) == IF a = <<>> THEN a ELSE Tail(a)

RECURSIVE bigTrim(_)
bigTrim(a) ==
    IF a # <<>> /\ a[Len(a)] = 0 THEN bigTrim(SubSeq(a, 1, Len(a) - 1)) ELSE a

RECURSIVE bigOfInt(_)
bigOfInt(n) == IF n = 0 THEN <<>> ELSE <<n % Limb>> \o bigOfInt(n \div Limb)

\* a + b + carry, where x is the sum of the lowest digits and the carry
RECURSIVE bigAddCarry(_, _, _)
RECURSIVE bigAddDigit(_, _, _)
bigAddDigit(a, b, x) == <<x % Limb>> \o bigAddCarry(restOf(a), restOf(b), x \div Limb)

bigAddCarry(a, b, carry) ==
    IF a = <<>> /\ b = <<>>
    THEN IF carry = 0 THEN <<>> ELSE <<carry>>
    ELSE bigAddDigit(a, b, headOf(a) + headOf(b) + carry)

bigAdd(a, b) == bigAddCarry(a, b, 0)

\* a - b - borrow, where x is the difference of the lowest digits less the borrow
RECURSIVE bigSubBorrow(_, _, _)
RECURSIVE bigSubDigit(_, _, _)
bigSubDigit(a, b, x) ==
    <<(x + Limb) % Limb>> \o bigSubBorrow(Tail(a), restOf(b), IF x < 0 THEN 1 ELSE 0)

bigSubBorrow(a, b, borrow) ==
    IF a = <<>> THEN <<>> ELSE bigSubDigit(a, b, a[1] - headOf(b) - borrow)

\* a - b, for a >= b
bigSub(a, b) == bigTrim(bigSubBorrow(a, b, 0))

bigLess(a, b) ==
    IF Len(a) # Len(b)
    THEN Len(a) < Len(b)
    ELSE \E i \in 1..Len(a) : /\ a[i] < b[i]
                              /\ \A j \in (i + 1)..Len(a) : a[j] = b[j]

\* a * d + carry, for a digit d, where x is the product of the lowest digit plus the carry
RECURSIVE bigMulLimb(_, _, _)
RECURSIVE bigMulDigit(_, _, _)
bigMulDigit(a, d, x) == <<x % Limb>> \o bigMulLimb(Tail(a), d, x \div Limb)

bigMulLimb(a, d, carry) ==
    IF a = <<>>
    THEN IF carry = 0 THEN <<>> ELSE <<carry>>
    ELSE bigMulDigit(a, d, a[1] * d + carry)

RECURSIVE bigMul(_, _)
bigMul(a, b) ==
    IF a = <<>> \/ b = <<>>
    THEN <<>>
    ELSE bigTrim(bigAdd(bigMulLimb(a, b[1], 0), <<0>> \o bigMul(a, Tail(b))))

\* a * 2^k
bigShiftLeft(a, k) ==
    IF a = <<>>
    THEN <<>>
    ELSE [i \in 1..(k \div 14) |-> 0] \o bigMulLimb(a, 2^(k % 14), 0)

\* s \div 2^r, for r < 14
bigShiftRightBits(s, r) ==
    bigTrim([i \in 1..Len(s) |->
                (s[i] \div 2^r) + ((IF i < Len(s) THEN s[i + 1] ELSE 0) % 2^r) * 2^(14 - r)])

\* a \div 2^k
bigShiftRight(a, k) ==
    bigShiftRightBits(IF k \div 14 >= Len(a) THEN <<>> ELSE SubSeq(a, k \div 14 + 1, Len(a)),
                      k % 14)

\* The number of binary digits of a.
bigBitLength(a) ==
    IF a = <<>>
    THEN 0
    ELSE 14 * (Len(a) - 1)
         + (CHOOSE k \in 1..14 : 2^(k - 1) <= a[Len(a)] /\ a[Len(a)] < 2^k)

\* One more binary digit on top of a quotient.
withDigit(rest, digit) == [rest EXCEPT !.quotient = @ + digit]

\* Binary long division: the k-bit number r * 2^k \div d and the remainder,
\* for r < d; r2 is r doubled.
RECURSIVE bigDivBits(_, _, _)
RECURSIVE bigDivBit(_, _, _)
bigDivBit(r2, d, k) ==
    IF bigLess(r2, d)
    THEN bigDivBits(r2, d, k - 1)
    ELSE withDigit(bigDivBits(bigSub(r2, d), d, k - 1), 2^(k - 1))

bigDivBits(r, d, k) ==
    IF k = 0 THEN [quotient |-> 0, remainder |-> r] ELSE bigDivBit(bigAdd(r, r), d, k)

\* One more digit in base 2^14 below a quotient.
withLimb(rest, limb) == [rest EXCEPT !.quotient = Append(@, limb)]

\* The n digits, in base 2^14, of r * 2^(14 * n) \div d and the remainder, for r < d;
\* top holds the highest digit.
RECURSIVE bigDivDigits(_, _, _)
RECURSIVE bigDivDigit(_, _, _)
bigDivDigit(top, d, n) == withLimb(bigDivDigits(top.remainder, d, n - 1), top.quotient)

bigDivDigits(r, d, n) ==
    IF n = 0
    THEN [quotient |-> <<>>, remainder |-> r]
    ELSE bigDivDigit(bigDivBits(r, d, 14), d, n)

\* Quotient and remainder of n * 2^56 by d, for n < 2 * d.
bigDivMod(n, d) ==
    IF bigLess(n, d)
    THEN bigDivDigits(n, d, 4)
    ELSE withLimb(bigDivDigits(bigSub(n, d), d, 4), 1)

double_0 == [neg |-> FALSE, mant |-> <<>>, exp |-> 0]

\* q * 2^e, for q of 53 or 54 binary digits
doubleNormal(neg, q, e) ==
    IF bigBitLength(q) = 54
    THEN [neg |-> neg, mant |-> bigShiftRight(q, 1), exp |-> e + 1]
    ELSE [neg |-> neg, mant |-> q, exp |-> e]

\* Round to nearest, ties to even: q plus the remainder r of the digits cut
\* off goes up when r is more than half, or is half and q is odd.
roundsUp(q, r, half, sticky) ==
    \/ bigLess(half, r)
    \/ r = half /\ (sticky \/ q[1] % 2 = 1)

\* n rounded to its 53 highest binary digits q, for n of 53 + k digits
doubleRoundTo(neg, n, e, sticky, k, q) ==
    doubleNormal(neg,
                 IF roundsUp(q, bigSub(n, bigShiftLeft(q, k)), bigShiftLeft(<<1>>, k - 1), sticky)
                 THEN bigAdd(q, <<1>>)
                 ELSE q,
                 e + k)

\* n * 2^e, for n of len binary digits
doubleRoundLen(neg, n, e, sticky, len) ==
    IF len <= 53
    THEN [neg |-> neg, mant |-> bigShiftLeft(n, 53 - len), exp |-> e - (53 - len)]
    ELSE doubleRoundTo(neg, n, e, sticky, len - 53, bigShiftRight(n, len - 53))

\* The double nearest to n * 2^e, and when sticky to a number just above it.
doubleRound(neg, n, e, sticky) ==
    IF n = <<>> THEN double_0 ELSE doubleRoundLen(neg, n, e, sticky, bigBitLength(n))

\* An integer as a double.
doubleOfInt(n) == doubleRound(n < 0, bigOfInt(IF n < 0 THEN -n ELSE n), 0, FALSE)

doubleNeg(a) == IF a = double_0 THEN a ELSE [a EXCEPT !.neg = ~@]

\* Math.abs(a)
doubleAbs(a) == [a EXCEPT !.neg = FALSE]

\* |a| < |b|
doubleSmaller(a, b) ==
    IF b = double_0 THEN FALSE
    ELSE IF a = double_0 THEN TRUE
    ELSE IF a.exp # b.exp THEN a.exp < b.exp
    ELSE bigLess(a.mant, b.mant)

\* a < b
doubleLess(a, b) ==
    IF a.neg # b.neg THEN a.neg
    ELSE IF a.neg THEN doubleSmaller(b, a)
    ELSE doubleSmaller(a, b)

\* a <= b
doubleLeq(a, b) == ~doubleLess(b, a)

\* Math.max(a, b) and Math.min(a, b)
doubleMax(a, b) == IF doubleLess(a, b) THEN b ELSE a

doubleMin(a, b) == IF doubleLess(b, a) THEN b ELSE a

\* |x - y|
bigDistance(x, y) == IF bigLess(x, y) THEN bigSub(y, x) ELSE bigSub(x, y)

\* x * 2^e plus y * 2^e, each negated when its flag says so
doubleAddAligned(xneg, x, yneg, y, e) ==
    doubleRound(IF xneg # yneg /\ bigLess(x, y) THEN yneg ELSE xneg,
                IF xneg = yneg THEN bigAdd(x, y) ELSE bigDistance(x, y),
                e, FALSE)

\* a + b
doubleAdd(a, b) ==
    IF a = double_0 THEN b
    ELSE IF b = double_0 THEN a
    ELSE IF a.exp - b.exp >= 56 THEN a
    ELSE IF b.exp - a.exp >= 56 THEN b
    ELSE doubleAddAligned(a.neg, bigShiftLeft(a.mant, IF a.exp < b.exp THEN 0 ELSE a.exp - b.exp),
                          b.neg, bigShiftLeft(b.mant, IF a.exp < b.exp THEN b.exp - a.exp ELSE 0),
                          IF a.exp < b.exp THEN a.exp ELSE b.exp)

\* a - b
doubleSub(a, b) == doubleAdd(a, doubleNeg(b))

\* a * b
doubleMul(a, b) ==
    IF a = double_0 \/ b = double_0
    THEN double_0
    ELSE doubleRound(a.neg # b.neg, bigMul(a.mant, b.mant), a.exp + b.exp, FALSE)

\* The quotient d of the mantissas, rounded
doubleDivRound(neg, d, e) == doubleRound(neg, d.quotient, e, d.remainder # <<>>)

\* a / b, for b other than zero: a over 1.0 or -1.0 is a with the sign of the
\* quotient, any other quotient is the rounded quotient of the mantissas.
doubleDiv(a, b) ==
    IF a = double_0
    THEN double_0
    ELSE IF b.mant = <<0, 0, 0, 1024>> /\ b.exp = -52
    THEN [a EXCEPT !.neg = (a.neg # b.neg)]
    ELSE doubleDivRound(a.neg # b.neg, bigDivMod(a.mant, b.mant), a.exp - b.exp - 56)

\* The decimal literal of the fraction n/d is the double nearest to it.
doubleOfRatio(n, d) == doubleDiv(doubleOfInt(n), doubleOfInt(d))

\* The literals of the code, as the doubles JavaScript reads them as: the
\* mantissa, lowest digit first, and the exponent.
double_1_0 == [neg |-> FALSE, mant |-> <<0, 0, 0, 1024>>, exp |-> -52]
double_2_0 == [neg |-> FALSE, mant |-> <<0, 0, 0, 1024>>, exp |-> -51]
double_0_1 == [neg |-> FALSE, mant |-> <<6554, 9830, 6553, 1638>>, exp |-> -56]
double_0_2 == [neg |-> FALSE, mant |-> <<6554, 9830, 6553, 1638>>, exp |-> -55]
double_0_3 == [neg |-> FALSE, mant |-> <<13107, 3276, 13107, 1228>>, exp |-> -54]
double_0_4 == [neg |-> FALSE, mant |-> <<6554, 9830, 6553, 1638>>, exp |-> -54]
double_0_5 == [neg |-> FALSE, mant |-> <<0, 0, 0, 1024>>, exp |-> -53]
double_0_6 == [neg |-> FALSE, mant |-> <<13107, 3276, 13107, 1228>>, exp |-> -53]
double_0_8 == [neg |-> FALSE, mant |-> <<6554, 9830, 6553, 1638>>, exp |-> -53]
double_0_02 == [neg |-> FALSE, mant |-> <<5243, 7864, 11796, 1310>>, exp |-> -58]
double_0_15 == [neg |-> FALSE, mant |-> <<13107, 3276, 13107, 1228>>, exp |-> -55]
double_0_24 == [neg |-> FALSE, mant |-> <<7864, 11796, 1310, 1966>>, exp |-> -55]
double_0_25 == [neg |-> FALSE, mant |-> <<0, 0, 0, 1024>>, exp |-> -54]
double_1_45 == [neg |-> FALSE, mant |-> <<13107, 3276, 13107, 1484>>, exp |-> -52]
double_10000 == [neg |-> FALSE, mant |-> <<0, 0, 0, 1250>>, exp |-> -39]

\* Each literal is the double nearest to the fraction it is written as.
literalsAreNearest ==
    /\ double_1_0 = doubleOfInt(1)
    /\ double_2_0 = doubleOfInt(2)
    /\ double_0_1 = doubleOfRatio(1, 10)
    /\ double_0_2 = doubleOfRatio(2, 10)
    /\ double_0_3 = doubleOfRatio(3, 10)
    /\ double_0_4 = doubleOfRatio(4, 10)
    /\ double_0_5 = doubleOfRatio(5, 10)
    /\ double_0_6 = doubleOfRatio(6, 10)
    /\ double_0_8 = doubleOfRatio(8, 10)
    /\ double_0_02 = doubleOfRatio(2, 100)
    /\ double_0_15 = doubleOfRatio(15, 100)
    /\ double_0_24 = doubleOfRatio(24, 100)
    /\ double_0_25 = doubleOfRatio(25, 100)
    /\ double_1_45 = doubleOfRatio(145, 100)
    /\ double_10000 = doubleOfInt(10000)

\* The value of a table at k, and where it has none the value computed.
tableOr(table, k, computed) == IF k \in DOMAIN table THEN table[k] ELSE computed

\* a - b, with no floor.
doubleSubFloor0_unfloored(a, b) == doubleSub(a, b)

\* Math.max(0, a - b)
doubleSubFloor0(a, b) == doubleMax(double_0, doubleSub(a, b))

\* The trustScore of a user flagged k times.
RECURSIVE trustAfterFlags(_)
trustAfterFlags(k) ==
    IF k = 0 THEN double_1_0 ELSE doubleSubFloor0(trustAfterFlags(k - 1), double_0_1)

\* Math.max(0, trustScore - 0.1), for the trust scores of users flagged up to
\* MemoFlags times.
flaggedMemo ==
    [trustScore \in {trustAfterFlags(i) : i \in 0..MemoFlags} |->
        doubleSubFloor0(trustScore, double_0_1)] @@ <<>>

flaggedOf(trustScore) ==
    tableOr(flaggedMemo, trustScore, doubleSubFloor0(trustScore, double_0_1))

(***************************************************************************)
(* Profile normalizer (UserManager.sanitizeProfile).  An absent or falsy   *)
(* attribute is the empty string; keywords are a sequence.                 *)
(***************************************************************************)
validGenders == {"male", "female", "other", "not-specified"}
validAges == {"18-25", "26-35", "36-45", "46+", "not-specified"}

toLowerCase(str) ==
    CASE str = "Male" -> "male"
      [] str = "Female" -> "female"
      [] str = "MUSIC" -> "music"
      [] str = "Paris, FR" -> "paris, fr"
      [] str = "Lyon, FR" -> "lyon, fr"
      [] OTHER -> str

\* A gender, a location or an age that the result does not have is "" (each
\* is read with `|| default`, as "" is); the result has keywords when the
\* profile has, an empty list included.
sanitizeProfile(profile) ==
    LET gender == IF profile.gender # ""
                  THEN (IF toLowerCase(profile.gender) \in validGenders
                        THEN toLowerCase(profile.gender) ELSE "not-specified")
                  ELSE ""
        age == IF profile.age # ""
               THEN (IF profile.age \in validAges THEN profile.age ELSE "not-specified")
               ELSE ""
    IN IF "keywords" \in DOMAIN profile
       THEN [gender |-> gender, location |-> profile.location, age |-> age,
             keywords |-> SubSeq(profile.keywords, 1, Min(Len(profile.keywords), 10))]
       ELSE [gender |-> gender, location |-> profile.location, age |-> age]

\* profile.keywords || []
keywordsOf(profile) == IF "keywords" \in DOMAIN profile THEN profile.keywords ELSE <<>>

(***************************************************************************)
(* UserManager.  Its methods are functions of the registry state R, a      *)
(* record of the five registry variables, so that a handler or a sweep can *)
(* chain several calls.                                                    *)
(***************************************************************************)
Reg == [userObj |-> userObj, users |-> users, usersByUserId |-> usersByUserId,
        sessionTimeouts |-> sessionTimeouts, sessionTimers |-> sessionTimers]

SetReg(R) ==
    /\ userObj' = R.userObj
    /\ users' = R.users
    /\ usersByUserId' = R.usersByUserId
    /\ sessionTimeouts' = R.sessionTimeouts
    /\ sessionTimers' = R.sessionTimers

SessionTimer(userId, deadline) == [userId |-> userId, deadline |-> deadline]

\* clearSessionTimeout(userId): the stored timer is cancelled and forgotten.
clearSessionTimeout(R, userId) ==
    IF R.sessionTimeouts[userId] # Null
    THEN [R EXCEPT !.sessionTimers = @ \ {SessionTimer(userId, R.sessionTimeouts[userId])},
                   !.sessionTimeouts[userId] = Null]
    ELSE R

\* setSessionTimeout(userId): cancel the stored timer, arm a new one, store it.
setSessionTimeout(R, userId, t) ==
    LET C == clearSessionTimeout(R, userId) IN
    [C EXCEPT !.sessionTimers = @ \cup {SessionTimer(userId, t + defaultSessionTimeout)},
              !.sessionTimeouts[userId] = t + defaultSessionTimeout]

\* extractPreferences(profile); an attribute the profile does not have reads as
\* undefined.
extractPreferences(profile) ==
    LET Preferred(attr) == IF attr \in DOMAIN profile /\ profile[attr] # ""
                           THEN profile[attr] ELSE "any"
    IN [preferredGender |-> Preferred("preferredGender"),
        preferredAgeRange |-> Preferred("preferredAgeRange"),
        preferredLocation |-> Preferred("preferredLocation"),
        interests |-> keywordsOf(profile)]

NewUser(userId, socketId, profile, t) ==
    [id |-> userId,
     socketId |-> socketId,
     profile |-> sanitizeProfile(profile),
     connectionTime |-> t,
     lastActivity |-> t,
     currentChatId |-> Null,
     preferences |-> extractPreferences(profile),
     violations |-> 0,
     trustScore |-> double_1_0,
     isBanned |-> FALSE]

\* createUser(socketId, profile): a fresh uuid, both Maps set, the timer armed.
\* No look-up of socketId precedes the two set calls.
createUser(R, socketId, profile, t) ==
    LET userId == Len(R.userObj) + 1
        S == [R EXCEPT !.userObj = Append(@, NewUser(userId, socketId, profile, t)),
                       !.users[socketId] = userId,
                       !.usersByUserId = @ \cup {userId},
                       !.sessionTimeouts = Append(@, Null)]
    IN setSessionTimeout(S, userId, t)

getUser(R, socketId) == R.users[socketId]

getUserById(R, userId) == IF userId \in R.usersByUserId THEN userId ELSE Null

\* removeUser(socketId): false and nothing changed when the socket has no user.
removeUserResult(R, socketId) == R.users[socketId] # Null

\* removeUser that leaves the user in usersByUserId.
removeUser_keepsUserIdIndex(R, socketId) ==
    IF R.users[socketId] = Null
    THEN R
    ELSE LET userId == R.users[socketId]
             C == clearSessionTimeout(R, userId)
         IN [C EXCEPT !.users[socketId] = Null]

removeUser(R, socketId) ==
    IF R.users[socketId] = Null
    THEN R
    ELSE LET userId == R.users[socketId]
             C == clearSessionTimeout(R, userId)
         IN [C EXCEPT !.users[socketId] = Null,
                      !.usersByUserId = @ \ {userId}]

\* updateActivity(socketId)
updateUserActivity(R, socketId, t) ==
    IF R.users[socketId] = Null
    THEN R
    ELSE LET userId == R.users[socketId]
             S == [R EXCEPT !.userObj[userId].lastActivity = t]
         IN setSessionTimeout(S, userId, t)

\* setCurrentChat(socketId, chatId)
setCurrentChat(R, socketId, chatId, t) ==
    IF R.users[socketId] = Null
    THEN R
    ELSE [R EXCEPT !.userObj[R.users[socketId]].currentChatId = chatId,
                   !.userObj[R.users[socketId]].lastActivity = t]

\* clearCurrentChat(socketId)
clearCurrentChat(R, socketId, t) ==
    IF R.users[socketId] = Null
    THEN R
    ELSE [R EXCEPT !.userObj[R.users[socketId]].currentChatId = Null,
                   !.userObj[R.users[socketId]].lastActivity = t]

\* { ...user.profile, ...sanitizedUpdates }: sanitizeProfile leaves out the
\* attributes the update does not name.
mergeProfile(profile, sanitizedUpdates) ==
    [gender |-> IF sanitizedUpdates.gender # "" THEN sanitizedUpdates.gender
                ELSE profile.gender,
     location |-> IF sanitizedUpdates.location # "" THEN sanitizedUpdates.location
                  ELSE profile.location,
     age |-> IF sanitizedUpdates.age # "" THEN sanitizedUpdates.age ELSE profile.age,
     keywords |-> IF "keywords" \in DOMAIN sanitizedUpdates
                  THEN sanitizedUpdates.keywords
                  ELSE keywordsOf(profile)]

\* updateProfile(socketId, profileUpdates): the session timer is left as it is.
updateProfileResult(R, socketId) == R.users[socketId] # Null

updateProfile(R, socketId, profileUpdates, t) ==
    IF R.users[socketId] = Null
    THEN R
    ELSE LET profile == mergeProfile(R.userObj[R.users[socketId]].profile,
                                     sanitizeProfile(profileUpdates))
         IN [R EXCEPT !.userObj[R.users[socketId]].profile = profile,
                      !.userObj[R.users[socketId]].preferences =
                          extractPreferences(profile),
                      !.userObj[R.users[socketId]].lastActivity = t]

\* updateStats(socketId, statUpdates): Object.assign(user.stats, statUpdates);
\* of the stats only violations is read elsewhere.
updateStats(R, socketId, statUpdates, t) ==
    IF R.users[socketId] = Null
    THEN R
    ELSE [R EXCEPT !.userObj[R.users[socketId]].violations =
                       IF "violations" \in DOMAIN statUpdates
                       THEN statUpdates.violations ELSE @,
                   !.userObj[R.users[socketId]].lastActivity = t]

\* banUser(userId, reason)
banUser(R, userId) ==
    IF userId \in R.usersByUserId
    THEN [R EXCEPT !.userObj[userId].isBanned = TRUE]
    ELSE R

\* flagUser(userId, violationType, details)
flagUser(R, userId) ==
    IF userId \in R.usersByUserId
    THEN LET F == [R EXCEPT !.userObj[userId].violations = @ + 1,
                            !.userObj[userId].trustScore = flaggedOf(@)]
         IN IF \/ F.userObj[userId].violations >= 5
               \/ doubleLeq(F.userObj[userId].trustScore, double_0_3)
            THEN banUser(F, userId)
            ELSE F
    ELSE R

\* isUserBanned(userId)
isUserBanned(R, userId) ==
    IF userId \in R.usersByUserId THEN R.userObj[userId].isBanned ELSE FALSE

\* The callback armed by setSessionTimeout(userId), run when the timer fires.
sessionTimeoutCallback(R, userId) ==
    IF userId \in R.usersByUserId
    THEN removeUser(R, R.userObj[userId].socketId)
    ELSE R

RECURSIVE removeUsers(_, _)
removeUsers(R, socketIds) ==
    IF socketIds = {}
    THEN R
    ELSE LET s == CHOOSE x \in socketIds : \A y \in socketIds : x <= y
         IN removeUsers(removeUser(R, s), socketIds \ {s})

\* The sockets cleanupInactiveUsers collects: those of this.users whose user
\* has been idle longer than the threshold.
inactiveUsers(R, inactivityThreshold, t) ==
    {s \in Sockets : /\ R.users[s] # Null
                     /\ t - R.userObj[R.users[s]].lastActivity > inactivityThreshold}

\* cleanupInactiveUsers(inactivityThreshold)
cleanupInactiveUsers(R, inactivityThreshold, t) ==
    removeUsers(R, inactiveUsers(R, inactivityThreshold, t))

\* What cleanupInactiveUsers returns: inactiveUsers.length.
cleanupInactiveUsersResult(R, inactivityThreshold, t) ==
    Cardinality(inactiveUsers(R, inactivityThreshold, t))

(***************************************************************************)
(* MatchingEngine: the compatibility score, in doubles.  The scores that   *)
(* most calls compute are tabulated (the Memo definitions: a function      *)
(* joined to the empty one by @@ is computed once, as a table); any other  *)
(* is computed by the same operators when asked.                           *)
(***************************************************************************)
sanitizePreferences(preferences) ==
    [chatType |-> IF preferences.chatType # "" THEN preferences.chatType ELSE "text",
     gender |-> IF preferences.gender # "" THEN preferences.gender ELSE "any",
     age |-> IF preferences.age # "" THEN preferences.age ELSE "any"]

weights == [gender |-> double_0_3, age |-> double_0_2, location |-> double_0_15,
            interests |-> double_0_25, trustScore |-> double_0_1]

\* calculateGenderCompatibility that asks the first entry's preference only.
calculateGenderCompatibility_oneSided(entry1, entry2) ==
    LET pref1 == IF entry1.preferences.gender # "" THEN entry1.preferences.gender ELSE "any"
        g2 == userObj[entry2.userId].profile.gender
        gender2 == IF g2 # "" THEN g2 ELSE "not-specified"
    IN IF pref1 = "any" \/ pref1 = gender2 THEN double_1_0 ELSE double_0

\* 1.0, or 0.5 for each preference that is met (0.5 + 0.5 is 1.0).
calculateGenderCompatibility(entry1, entry2) ==
    LET pref1 == IF entry1.preferences.gender # "" THEN entry1.preferences.gender ELSE "any"
        pref2 == IF entry2.preferences.gender # "" THEN entry2.preferences.gender ELSE "any"
        g1 == userObj[entry1.userId].profile.gender
        g2 == userObj[entry2.userId].profile.gender
        gender1 == IF g1 # "" THEN g1 ELSE "not-specified"
        gender2 == IF g2 # "" THEN g2 ELSE "not-specified"
        met1 == pref1 = "any" \/ pref1 = gender2
        met2 == pref2 = "any" \/ pref2 = gender1
    IN IF pref1 = "any" /\ pref2 = "any"
       THEN double_1_0
       ELSE IF met1 /\ met2 THEN double_1_0
       ELSE IF met1 \/ met2 THEN double_0_5
       ELSE double_0

calculateAgeCompatibility(entry1, entry2) ==
    LET age1 == userObj[entry1.userId].profile.age
        age2 == userObj[entry2.userId].profile.age
        prefAge1 == entry1.preferences.age
        prefAge2 == entry2.preferences.age
        met1 == prefAge1 = "" \/ prefAge1 = "any" \/ prefAge1 = age2
        met2 == prefAge2 = "" \/ prefAge2 = "any" \/ prefAge2 = age1
    IN IF age1 = "" \/ age2 = "" \/ age1 = "not-specified" \/ age2 = "not-specified"
       THEN double_0_5
       ELSE IF age1 = age2
       THEN double_1_0
       ELSE IF met1 /\ met2 THEN double_1_0
       ELSE IF met1 \/ met2 THEN double_0_5
       ELSE double_0

\* split(',')[0].trim() on the locations of the model.
firstPart(str) ==
    CASE str = "paris, fr" -> "paris"
      [] str = "lyon, fr" -> "lyon"
      [] OTHER -> str

\* a.includes(b) on the locations of the model.
includes(a, b) ==
    \/ a = b
    \/ a = "paris, fr" /\ b \in {"paris", "fr"}
    \/ a = "lyon, fr" /\ b \in {"lyon", "fr"}

calculateLocationCompatibility(entry1, entry2) ==
    LET loc1 == userObj[entry1.userId].profile.location
        loc2 == userObj[entry2.userId].profile.location
        location1 == toLowerCase(loc1)
        location2 == toLowerCase(loc2)
    IN IF loc1 = "" \/ loc2 = ""
       THEN double_0_5
       ELSE IF location1 = location2
       THEN double_1_0
       ELSE IF firstPart(location1) = firstPart(location2)
       THEN double_0_8
       ELSE IF includes(location1, location2) \/ includes(location2, location1)
       THEN double_0_6
       ELSE double_0_3

\* Math.min(jaccardSimilarity + bonus, 1.0) of two sets of keywords with
\* commonCount common ones of unionSize.
interestScore(commonCount, unionSize) ==
    doubleMin(doubleAdd(doubleDiv(doubleOfInt(commonCount), doubleOfInt(unionSize)),
                        doubleMin(doubleMul(doubleOfInt(commonCount), double_0_1),
                                  double_0_3)),
              double_1_0)

interestMemo ==
    [k \in {c \in (0..MemoKeywords) \X (1..MemoKeywords) : c[1] <= c[2]} |->
        interestScore(k[1], k[2])] @@ <<>>

\* The score of two sets of keywords of which neither is empty.
interestScoreOf(k) == tableOr(interestMemo, k, interestScore(k[1], k[2]))

toLowerCaseAll(interests) == {toLowerCase(interests[i]) : i \in 1..Len(interests)}

interestsCompatibility(interests1, interests2) ==
    IF Len(interests1) = 0 /\ Len(interests2) = 0
    THEN double_0_5
    ELSE IF Len(interests1) = 0 \/ Len(interests2) = 0
    THEN double_0_4
    ELSE interestScoreOf(<<Cardinality(toLowerCaseAll(interests1) \cap toLowerCaseAll(interests2)),
                           Cardinality(toLowerCaseAll(interests1) \cup toLowerCaseAll(interests2))>>)

calculateInterestCompatibility(entry1, entry2) ==
    interestsCompatibility(keywordsOf(userObj[entry1.userId].profile),
                           keywordsOf(userObj[entry2.userId].profile))

\* averageTrust * (1 - trustDifference * 0.5)
trustCompatibility(trust1, trust2) ==
    doubleMul(doubleDiv(doubleAdd(trust1, trust2), double_2_0),
              doubleSub(double_1_0,
                        doubleMul(doubleAbs(doubleSub(trust1, trust2)), double_0_5)))

trustMemo ==
    [k \in {trustAfterFlags(i) : i \in 0..MemoFlags}
           \X {trustAfterFlags(i) : i \in 0..MemoFlags} |->
        trustCompatibility(k[1], k[2])] @@ <<>>

trustCompatibilityOf(k) == tableOr(trustMemo, k, trustCompatibility(k[1], k[2]))

\* `trustScore || 1.0` reads a score of 0 as 1.0.
orOne(trustScore) == IF trustScore # double_0 THEN trustScore ELSE double_1_0

calculateTrustCompatibility(entry1, entry2) ==
    trustCompatibilityOf(<<orOne(userObj[entry1.userId].trustScore),
                           orOne(userObj[entry2.userId].trustScore)>>)

\* totalScore += score * weight
addWeighted(totalScore, score, weight) == doubleAdd(totalScore, doubleMul(score, weight))

\* totalScore + term[score], for every total and every score given.
addTermMemo(totals, term) ==
    [totalScore \in totals |->
        [score \in DOMAIN term |-> doubleAdd(totalScore, term[score])] @@ <<>>] @@ <<>>

\* What addWeighted gives for every total and every score given.
addWeightedMemo(totals, scores, weight) ==
    addTermMemo(totals, [score \in scores |-> doubleMul(score, weight)] @@ <<>>)

\* The totals that a table of addWeightedMemo holds.
totalsOf(memo) == UNION {{memo[k][score] : score \in DOMAIN memo[k]} : k \in DOMAIN memo}

addWeightedOf(memo, totalScore, score, weight) ==
    tableOr(tableOr(memo, totalScore, <<>>), score, addWeighted(totalScore, score, weight))

\* totalScore after each of the five scores, for the scores the tables above
\* hold.
totalWithGender ==
    addWeightedMemo({double_0}, {double_0, double_0_5, double_1_0}, weights.gender)

totalWithAge ==
    addWeightedMemo(totalsOf(totalWithGender), {double_0, double_0_5, double_1_0},
                    weights.age)

totalWithLocation ==
    addWeightedMemo(totalsOf(totalWithAge),
                    {double_0_3, double_0_5, double_0_6, double_0_8, double_1_0},
                    weights.location)

totalWithInterests ==
    addWeightedMemo(totalsOf(totalWithLocation),
                    {interestMemo[k] : k \in DOMAIN interestMemo}
                        \cup {double_0_5, double_0_4},
                    weights.interests)

totalWithTrust ==
    addWeightedMemo(totalsOf(totalWithInterests),
                    {trustMemo[k] : k \in DOMAIN trustMemo}, weights.trustScore)

\* totalWeight, the weights added in the order of the code.
totalWeight ==
    doubleAdd(doubleAdd(doubleAdd(doubleAdd(doubleAdd(double_0, weights.gender),
                                            weights.age),
                                  weights.location),
                        weights.interests),
              weights.trustScore)

\* totalScore after the five scores, added in the order of the code.
totalScoreOf(genderScore, ageScore, locationScore, interestScore_, trustScore) ==
    addWeightedOf(totalWithTrust,
        addWeightedOf(totalWithInterests,
            addWeightedOf(totalWithLocation,
                addWeightedOf(totalWithAge,
                    addWeightedOf(totalWithGender, double_0, genderScore, weights.gender),
                    ageScore, weights.age),
                locationScore, weights.location),
            interestScore_, weights.interests),
        trustScore, weights.trustScore)

\* totalWeight > 0 ? totalScore / totalWeight : 0
scoreOverWeight(totalScore, weight) ==
    IF doubleLess(double_0, weight) THEN doubleDiv(totalScore, weight) ELSE double_0

calculateCompatibility(entry1, entry2) ==
    scoreOverWeight(totalScoreOf(calculateGenderCompatibility(entry1, entry2),
                                 calculateAgeCompatibility(entry1, entry2),
                                 calculateLocationCompatibility(entry1, entry2),
                                 calculateInterestCompatibility(entry1, entry2),
                                 calculateTrustCompatibility(entry1, entry2)),
                    totalWeight)

\* Math.max(baseThreshold - reduction, 0.1) of an entry that has waited waitTime ms.
minimumCompatibility(waitTime) ==
    doubleMax(doubleSub(double_0_3,
                        doubleMin(doubleMul(doubleDiv(doubleOfInt(waitTime),
                                                      doubleOfInt(60 * 1000)),
                                            double_0_02),
                                  double_0_2)),
              double_0_1)

minimumCompatibilityMemo ==
    [waitMinutes \in 0..MemoWait |-> minimumCompatibility(waitMinutes * 60000)] @@ <<>>

minimumCompatibilityOf(waitMinutes) ==
    tableOr(minimumCompatibilityMemo, waitMinutes, minimumCompatibility(waitMinutes * 60000))

\* getMinimumCompatibility that never lowers the base threshold.
getMinimumCompatibility_noReduction(queueEntry, t) == double_0_3

\* getMinimumCompatibility(queueEntry) at minute t.
getMinimumCompatibility(queueEntry, t) == minimumCompatibilityOf(t - queueEntry.queuedAt)

\* compatibilityScore >= getMinimumCompatibility(queueEntry)
isViable(queueEntry, candidate, t) ==
    doubleLeq(getMinimumCompatibility(queueEntry, t),
              calculateCompatibility(queueEntry, candidate))

\* b.compatibilityScore - a.compatibilityScore < 0
scoreGreater(a, b) == doubleLess(b, a)

\* The priority before Math.max(0.1, Math.min(2.0, priority)); young is
\* hoursSinceConnection < 1.
priorityPlusYoung(priority, young) == IF young THEN doubleAdd(priority, double_0_2) ELSE priority

priorityBeforeBounds(trustScore, violations, young) ==
    priorityPlusYoung(doubleSub(doubleAdd(double_1_0,
                                          doubleMul(doubleSub(trustScore, double_0_5),
                                                    double_0_5)),
                                doubleMul(doubleOfInt(violations), double_0_1)),
                      young)

\* Math.max(0.1, Math.min(2.0, priority))
priorityBounded(trustScore, violations, young) ==
    doubleMax(double_0_1,
              doubleMin(double_2_0, priorityBeforeBounds(trustScore, violations, young)))

priorityMemo ==
    [k \in {<<trustAfterFlags(i), i, young>> : i \in 0..MemoFlags, young \in BOOLEAN} |->
        priorityBounded(k[1], k[2], k[3])] @@ <<>>

priorityOf(k) == tableOr(priorityMemo, k, priorityBounded(k[1], k[2], k[3]))

\* calculatePriority without its bounds.
calculatePriority_unbounded(user, t) ==
    priorityBeforeBounds(user.trustScore, user.violations, t - user.connectionTime < 60)

\* calculatePriority(user) at minute t.
calculatePriority(user, t) ==
    priorityOf(<<user.trustScore, user.violations, t - user.connectionTime < 60>>)

(***************************************************************************)
(* MatchingEngine: the queue.  Methods are functions of the queue Q.       *)
(***************************************************************************)
inQueue(Q, userId) == \E i \in 1..Len(Q) : Q[i].userId = userId

entryOf(Q, userId) == Q[CHOOSE i \in 1..Len(Q) : Q[i].userId = userId]

NewEntry(userId, preferences, t) ==
    [userId |-> userId,
     preferences |-> sanitizePreferences(preferences),
     queuedAt |-> t,
     priority |-> calculatePriority(userObj[userId], t)]

\* addToQueue that takes the queue for full as soon as it holds one entry.
addToQueueThrows_limitOne(Q, userId) == ~inQueue(Q, userId) /\ Len(Q) >= 1

\* addToQueue(user, preferences) throws when the queue is full.
addToQueueThrows(Q, userId) == ~inQueue(Q, userId) /\ Len(Q) >= maxQueueSize

\* addToQueue that stores a new entry over the one the user has.
addToQueue_refreshes(Q, userId, preferences, t) ==
    IF inQueue(Q, userId)
    THEN [i \in 1..Len(Q) |-> IF Q[i].userId = userId
                              THEN NewEntry(userId, preferences, t) ELSE Q[i]]
    ELSE IF Len(Q) >= maxQueueSize
    THEN Q
    ELSE Append(Q, NewEntry(userId, preferences, t))

addToQueue(Q, userId, preferences, t) ==
    IF inQueue(Q, userId) \/ Len(Q) >= maxQueueSize
    THEN Q
    ELSE Append(Q, NewEntry(userId, preferences, t))

\* The entry addToQueue returns when it does not throw.
addToQueueResult(Q, userId, preferences, t) ==
    IF inQueue(Q, userId) THEN entryOf(Q, userId) ELSE NewEntry(userId, preferences, t)

\* removeFromQueue(userId): true when an entry was removed.
removeFromQueueResult(Q, userId) == inQueue(Q, userId)

\* removeFromQueue(userId)
removeFromQueue(Q, userId) ==
    LET Keep(e) == e.userId # userId IN SelectSeq(Q, Keep)

\* What findBestMatch returns (null) when no candidate is viable.
NoMatch == [userId |-> Null]

\* candidates.filter(viable).sort(by score descending)[0], for the scores and
\* the threshold given.
bestScored(searchPool, score, threshold) ==
    IF \A i \in 1..Len(searchPool) : ~doubleLeq(threshold, score[i])
    THEN NoMatch
    ELSE searchPool[CHOOSE i \in 1..Len(searchPool) :
             /\ doubleLeq(threshold, score[i])
             /\ \A j \in 1..Len(searchPool) :
                    doubleLeq(threshold, score[j]) =>
                        \/ scoreGreater(score[i], score[j])
                        \/ ~scoreGreater(score[j], score[i]) /\ i <= j]

\* findBestMatch that takes the first viable candidate of the pool.
bestOfPool_firstViable(queueEntry, searchPool, t) ==
    LET viable == {i \in 1..Len(searchPool) : isViable(queueEntry, searchPool[i], t)}
    IN IF viable = {}
       THEN NoMatch
       ELSE searchPool[CHOOSE i \in viable : \A j \in viable : i <= j]

\* findBestMatch(queueEntry, candidates): the first of the best scored viable
\* candidates of the pool (the sort is stable), NoMatch when there is none.
bestOfPool(queueEntry, searchPool, t) ==
    bestScored(searchPool,
               [i \in 1..Len(searchPool) |->
                   calculateCompatibility(queueEntry, searchPool[i])] @@ <<>>,
               getMinimumCompatibility(queueEntry, t))

findBestMatch(Q, queueEntry, t) ==
    LET Other(e) == e.userId # queueEntry.userId IN
    bestOfPool(queueEntry, SelectSeq(Q, Other), t)

\* cleanupQueue(): the number of entries it found stale.
cleanupQueueResult(Q, t) ==
    Cardinality({i \in 1..Len(Q) : t - Q[i].queuedAt > maxWaitTime})

\* cleanupQueue that also drops the entries that have waited maxWaitTime.
cleanupQueue_atLimit(Q, t) ==
    LET Fresh(e) == ~(t - e.queuedAt >= maxWaitTime) IN SelectSeq(Q, Fresh)

\* cleanupQueue()
cleanupQueue(Q, t) ==
    LET Fresh(e) == ~(t - e.queuedAt > maxWaitTime) IN SelectSeq(Q, Fresh)

\* The rank of entry k of Q by priority descending, then queuedAt ascending.
rankOf(Q, k) ==
    1 + Cardinality({i \in 1..Len(Q) :
            \/ doubleLess(Q[k].priority, Q[i].priority)
            \/ Q[i].priority = Q[k].priority /\ Q[i].queuedAt < Q[k].queuedAt
            \/ Q[i].priority = Q[k].priority /\ Q[i].queuedAt = Q[k].queuedAt /\ i < k})

\* getQueuePosition that ranks in the order of insertion.
getQueuePosition_insertionOrder(Q, userId) ==
    IF ~inQueue(Q, userId)
    THEN -1
    ELSE CHOOSE i \in 1..Len(Q) : Q[i].userId = userId

\* getQueuePosition(userId)
getQueuePosition(Q, userId) ==
    IF ~inQueue(Q, userId)
    THEN -1
    ELSE rankOf(Q, CHOOSE i \in 1..Len(Q) : Q[i].userId = userId)

\* waitTime + (priority * 10000), for a wait of waitMinutes minutes.
loopKeyOf(waitMinutes, priority) ==
    doubleAdd(doubleOfInt(waitMinutes * 60000), doubleMul(priority, double_10000))

loopKeyMemo ==
    [k \in (0..MemoWait) \X {priorityMemo[p] : p \in DOMAIN priorityMemo} |->
        loopKeyOf(k[1], k[2])] @@ <<>>

loopKeyAt(k) == tableOr(loopKeyMemo, k, loopKeyOf(k[1], k[2]))

\* The key of the sort of processMatchingQueue of entry e at minute t.
loopKey(e, t) == loopKeyAt(<<t - e.queuedAt, e.priority>>)

\* The number of entries that the sort puts before entry i: those of a greater
\* key, and those of the same key that come before it (the sort is stable).
entriesBefore(key) ==
    [i \in DOMAIN key |->
        Cardinality({j \in DOMAIN key : \/ doubleLess(key[i], key[j])
                                        \/ key[j] = key[i] /\ j < i})] @@ <<>>

\* The entries of Q in the order of their keys, descending.
sortedByKey(Q, before) ==
    [r \in 1..Len(Q) |-> Q[CHOOSE i \in 1..Len(Q) : before[i] = r - 1]] @@ <<>>

\* The sort of processMatchingQueue.
sortedQueue(Q, t) ==
    sortedByKey(Q, entriesBefore([i \in 1..Len(Q) |-> loopKey(Q[i], t)] @@ <<>>))

(***************************************************************************)
(* ChatManager.  Methods are functions of the chat state S, a record of    *)
(* the chat variables.  Of a chat's analytics the model keeps              *)
(* lastMessageTime and silentPeriods; the response-time samples, the       *)
(* engagement score and the webrtc and quality fields are left out.        *)
(***************************************************************************)
Chat == [chatObj |-> chatObj, chats |-> chats, userChats |-> userChats,
         chatHistory |-> chatHistory, chatTimers |-> chatTimers,
         totalChats |-> totalChats, totalMessages |-> totalMessages,
         averageChatDuration |-> averageChatDuration]

SetChat(S) ==
    /\ chatObj' = S.chatObj
    /\ chats' = S.chats
    /\ userChats' = S.userChats
    /\ chatHistory' = S.chatHistory
    /\ chatTimers' = S.chatTimers
    /\ totalChats' = S.totalChats
    /\ totalMessages' = S.totalMessages
    /\ averageChatDuration' = S.averageChatDuration

ChatTimer(chatId, deadline) == [chatId |-> chatId, deadline |-> deadline]

mapGet(m, k) == IF k \in DOMAIN m THEN m[k] ELSE Null

mapSet(m, k, v) == [x \in DOMAIN m \cup {k} |-> IF x = k THEN v ELSE m[x]]

mapDelete(m, k) == [x \in DOMAIN m \ {k} |-> m[x]]

\* clearChatTimeout(chatId): looks the chat up in this.chats.
clearChatTimeout(S, chatId) ==
    IF chatId \in S.chats /\ S.chatObj[chatId].timeoutId # Null
    THEN [S EXCEPT !.chatTimers = @ \ {ChatTimer(chatId, S.chatObj[chatId].timeoutId)},
                   !.chatObj[chatId].timeoutId = Null]
    ELSE S

\* setChatTimeout(chatId)
setChatTimeout(S, chatId, t) ==
    LET C == clearChatTimeout(S, chatId)
        T == [C EXCEPT !.chatTimers = @ \cup {ChatTimer(chatId, t + maxChatDuration)}]
    IN IF chatId \in T.chats
       THEN [T EXCEPT !.chatObj[chatId].timeoutId = t + maxChatDuration]
       ELSE T

NewChat(chatId, user1Id, user2Id, chatType, t) ==
    [id |-> chatId,
     type |-> chatType,
     participants |-> <<user1Id, user2Id>>,
     createdAt |-> t,
     lastActivity |-> t,
     status |-> "active",
     messages |-> <<>>,
     messageCount |-> 0,
     duration |-> 0,
     endedBy |-> Null,
     endReason |-> "",
     endedAt |-> Null,
     maxMessages |-> maxMessagesPerChat,
     lastMessageTime |-> t,
     silentPeriods |-> 0,
     reports |-> <<>>,
     timeoutId |-> Null]

\* createChat(user1Id, user2Id, chatType): nothing is looked up before the
\* chat is stored and both users are mapped to it.
createChat(S, user1Id, user2Id, chatType, t) ==
    LET chatId == Len(S.chatObj) + 1
        C == [S EXCEPT !.chatObj = Append(@, NewChat(chatId, user1Id, user2Id, chatType, t)),
                       !.chats = @ \cup {chatId},
                       !.userChats = mapSet(mapSet(@, user1Id, chatId), user2Id, chatId),
                       !.totalChats = @ + 1]
    IN setChatTimeout(C, chatId, t)

\* getChat that looks among all the chats ever created.
getChat_everCreated(S, chatId) == IF chatId \in 1..Len(S.chatObj) THEN chatId ELSE Null

getChat(S, chatId) == IF chatId \in S.chats THEN chatId ELSE Null

\* getActiveChats(): the chats of this.chats whose status is 'active'.
getActiveChats(S) == {c \in S.chats : S.chatObj[c].status = "active"}

\* getActiveChatCount(): this.chats.size.
getActiveChatCount(S) == Cardinality(S.chats)

\* getUserCurrentChat(userId): the chat id, Null for null or undefined.
getUserCurrentChat(S, userId) ==
    LET chatId == mapGet(S.userChats, userId) IN
    IF chatId # Null /\ chatId \in S.chats THEN chatId ELSE Null

HistoryEntry(chat) ==
    [id |-> chat.id, type |-> chat.type, createdAt |-> chat.createdAt,
     endedAt |-> chat.endedAt, duration |-> chat.duration,
     messageCount |-> chat.messageCount, endReason |-> chat.endReason]

\* addToHistory(chat): the entry is pushed, then the history is cut to its
\* last maxHistorySize entries (slice(-maxHistorySize)).
addToHistory(S, chat) ==
    [S EXCEPT !.chatHistory =
        IF Len(@) + 1 > maxHistorySize
        THEN SubSeq(Append(@, HistoryEntry(chat)), Len(@) + 2 - maxHistorySize, Len(@) + 1)
        ELSE Append(@, HistoryEntry(chat))]

\* endChat(chatId, reason, endedBy) returns false for a chat not in this.chats.
endChatResult(S, chatId) == chatId \in S.chats

\* endChat was called once for every chat of chatIds.
endCalled(returns, S, chatIds) ==
    [c \in DOMAIN returns |->
        IF c \in chatIds THEN Append(returns[c], endChatResult(S, c)) ELSE returns[c]]

\* endChat that leaves the ended chat in this.chats.
endChat_keptInChats(S, chatId, reason, endedBy, t) ==
    IF chatId \notin S.chats
    THEN S
    ELSE LET A == [S EXCEPT !.chatObj[chatId].status = "ended",
                            !.chatObj[chatId].endReason = reason,
                            !.chatObj[chatId].endedBy = endedBy,
                            !.chatObj[chatId].duration = t - S.chatObj[chatId].createdAt,
                            !.chatObj[chatId].endedAt = t]
             B == [A EXCEPT !.userChats =
                        mapDelete(mapDelete(@, A.chatObj[chatId].participants[1]),
                                  A.chatObj[chatId].participants[2])]
             C == addToHistory(B, B.chatObj[chatId])
         IN clearChatTimeout(C, chatId)

\* The chat is deleted from this.chats before clearChatTimeout looks it up.
endChat(S, chatId, reason, endedBy, t) ==
    IF chatId \notin S.chats
    THEN S
    ELSE LET A == [S EXCEPT !.chatObj[chatId].status = "ended",
                            !.chatObj[chatId].endReason = reason,
                            !.chatObj[chatId].endedBy = endedBy,
                            !.chatObj[chatId].duration = t - S.chatObj[chatId].createdAt,
                            !.chatObj[chatId].endedAt = t]
             B == [A EXCEPT !.userChats =
                        mapDelete(mapDelete(@, A.chatObj[chatId].participants[1]),
                                  A.chatObj[chatId].participants[2])]
             C == addToHistory(B, B.chatObj[chatId])
             D == [C EXCEPT !.chats = @ \ {chatId}]
         IN clearChatTimeout(D, chatId)

\* updateChatAnalytics(chat, message), on the chat after the push.
updateChatAnalytics(chat, t) ==
    [chat EXCEPT !.silentPeriods = IF t - chat.lastMessageTime < 1 THEN @ ELSE @ + 1,
                 !.lastMessageTime = t]

\* addMessage(chatId, message) returns true when the message was stored.
addMessageResult(S, chatId) ==
    /\ chatId \in S.chats
    /\ S.chatObj[chatId].status = "active"
    /\ ~(Len(S.chatObj[chatId].messages) >= S.chatObj[chatId].maxMessages)

\* The chats addMessage(chatId, message) calls endChat on: chatId, at the limit.
limitReached(S, chatId) ==
    {c \in {chatId} : /\ c \in S.chats
                      /\ S.chatObj[c].status = "active"
                      /\ Len(S.chatObj[c].messages) >= S.chatObj[c].maxMessages}

\* enhancedMessage with the sequence taken before the count is incremented.
enhancedMessage_sequenceFromZero(chat, message) ==
    [senderId |-> message.senderId,
     chatId |-> chat.id,
     sequence |-> Len(chat.messages)]

enhancedMessage(chat, message) ==
    [senderId |-> message.senderId,
     chatId |-> chat.id,
     sequence |-> Len(chat.messages) + 1]

\* addMessage that tests the limit with > instead of >=.
addMessage_limitOffByOne(S, chatId, message, t) ==
    IF ~(chatId \in S.chats /\ S.chatObj[chatId].status = "active")
    THEN S
    ELSE IF Len(S.chatObj[chatId].messages) > S.chatObj[chatId].maxMessages
    THEN endChat(S, chatId, "message_limit_reached", Null, t)
    ELSE LET chat == S.chatObj[chatId]
             pushed == [chat EXCEPT !.messages = Append(@, enhancedMessage(chat, message)),
                                    !.messageCount = @ + 1,
                                    !.lastActivity = t]
             A == [S EXCEPT !.chatObj[chatId] = updateChatAnalytics(pushed, t),
                            !.totalMessages = @ + 1]
         IN setChatTimeout(A, chatId, t)

addMessage(S, chatId, message, t) ==
    IF ~(chatId \in S.chats /\ S.chatObj[chatId].status = "active")
    THEN S
    ELSE IF Len(S.chatObj[chatId].messages) >= S.chatObj[chatId].maxMessages
    THEN endChat(S, chatId, "message_limit_reached", Null, t)
    ELSE LET chat == S.chatObj[chatId]
             pushed == [chat EXCEPT !.messages = Append(@, enhancedMessage(chat, message)),
                                    !.messageCount = @ + 1,
                                    !.lastActivity = t]
             A == [S EXCEPT !.chatObj[chatId] = updateChatAnalytics(pushed, t),
                            !.totalMessages = @ + 1]
         IN setChatTimeout(A, chatId, t)

\* updateActivity(chatId, activityType, data)
updateActivity(S, chatId, t) ==
    IF chatId \notin S.chats
    THEN S
    ELSE setChatTimeout([S EXCEPT !.chatObj[chatId].lastActivity = t], chatId, t)

severeIssues == {"harassment", "inappropriate_content", "spam"}

reportedReason(issueType) ==
    CASE issueType = "harassment" -> "reported_harassment"
      [] issueType = "inappropriate_content" -> "reported_inappropriate_content"
      [] issueType = "spam" -> "reported_spam"
      [] OTHER -> "reported_other"

\* reportIssue(chatId, reporterId, issueType, description)
reportIssueResult(S, chatId) == chatId \in S.chats

\* reportIssue that ends the chat in nobody's name.
reportIssue_endedByNobody(S, chatId, reporterId, issueType, t) ==
    IF chatId \notin S.chats
    THEN S
    ELSE LET A == [S EXCEPT !.chatObj[chatId].reports =
                        Append(@, [reporterId |-> reporterId, issueType |-> issueType])]
         IN IF issueType \in severeIssues
            THEN endChat(A, chatId, reportedReason(issueType), Null, t)
            ELSE A

reportIssue(S, chatId, reporterId, issueType, t) ==
    IF chatId \notin S.chats
    THEN S
    ELSE LET A == [S EXCEPT !.chatObj[chatId].reports =
                        Append(@, [reporterId |-> reporterId, issueType |-> issueType])]
         IN IF issueType \in severeIssues
            THEN endChat(A, chatId, reportedReason(issueType), reporterId, t)
            ELSE A

\* A timer callback that closes over the chat object instead of looking the id up.
chatTimeoutCallback_onChatObject(S, chatId, t) ==
    [S EXCEPT !.chatObj[chatId].status = "ended",
              !.chatObj[chatId].endReason = "timeout",
              !.chatObj[chatId].endedAt = t]

\* The callback armed by setChatTimeout(chatId), run when the timer fires.
chatTimeoutCallback(S, chatId, t) == endChat(S, chatId, "timeout", Null, t)

RECURSIVE endChats(_, _, _, _)
endChats(S, chatIds, reason, t) ==
    IF chatIds = {}
    THEN S
    ELSE LET c == CHOOSE x \in chatIds : \A y \in chatIds : x <= y
         IN endChats(endChat(S, c, reason, Null, t), chatIds \ {c}, reason, t)

\* The chat ids that cleanupInactiveChats collects, at the threshold or not.
inactiveChats_atThreshold(S, inactivityThreshold, t) ==
    {c \in S.chats : t - S.chatObj[c].lastActivity >= inactivityThreshold}

\* The chat ids that cleanupInactiveChats collects before it ends any.
inactiveChats(S, inactivityThreshold, t) ==
    {c \in S.chats : t - S.chatObj[c].lastActivity > inactivityThreshold}

\* cleanupInactiveChats(inactivityThreshold)
cleanupInactiveChats(S, inactivityThreshold, t) ==
    endChats(S, inactiveChats(S, inactivityThreshold, t), "inactive_timeout", t)

cleanupInactiveChatsResult(S, inactivityThreshold, t) ==
    Cardinality(inactiveChats(S, inactivityThreshold, t))

(***************************************************************************)
(* Inputs of the model.                                                    *)
(***************************************************************************)
ProfileA == [gender |-> "male", location |-> "", age |-> "18-25", keywords |-> <<>>]
ProfileB == [gender |-> "Male", location |-> "", age |-> "26-35", keywords |-> <<"MUSIC">>]
\* The profile a client registers with is decided by its socket.
ProfileC == [gender |-> "Female", location |-> "Paris, FR", age |-> "46+",
             keywords |-> <<"music", "art">>]
ProfileD == [gender |-> "", location |-> "paris", age |-> "", keywords |-> <<"art">>]
ScoreProfiles == {ProfileA, ProfileB, ProfileC, ProfileD}

\* Two profiles that score 0.25 against each other when both users are picky.
ProfileE == [gender |-> "male", location |-> "", age |-> "18-25",
             keywords |-> <<"music", "art", "chess">>]
ProfileF == [gender |-> "male", location |-> "", age |-> "26-35",
             keywords |-> <<"music", "film", "golf">>]

\* A profile that carries a preference, and updates of one attribute each
\* (keywords once with a keyword and once with none), of none and of all.
ProfileP == [gender |-> "female", location |-> "", age |-> "18-25", keywords |-> <<>>,
             preferredGender |-> "male"]
ProfileUpdates ==
    {[gender |-> "", location |-> "", age |-> ""],
     [gender |-> "Male", location |-> "", age |-> ""],
     [gender |-> "", location |-> "Paris, FR", age |-> ""],
     [gender |-> "", location |-> "", age |-> "young"],
     [gender |-> "", location |-> "", age |-> "", keywords |-> <<"MUSIC">>],
     [gender |-> "", location |-> "", age |-> "", keywords |-> <<>>],
     ProfileB}

\* A profile and preferences of values outside the domains, with more keywords
\* than a profile keeps.
ProfileX == [gender |-> "robot", location |-> "", age |-> "young",
             keywords |-> <<"k1", "k2", "k3", "k4", "k5", "k6", "k7", "k8", "k9",
                            "k10", "k11">>,
             preferredGender |-> "robot"]
PrefsX == [chatType |-> "", gender |-> "robot", age |-> "young"]

\* The profiles of SpecLoop: the first ten users have an interest each and no
\* age, the others are of one age and one interest.
LoopProfile(k) ==
    IF k <= 10
    THEN [gender |-> "male", location |-> "", age |-> "", keywords |-> <<ToString(k)>>]
    ELSE [gender |-> "male", location |-> "", age |-> "18-25", keywords |-> <<"music">>]

\* Two profiles of different ages, places and interests.
ProfileG == [gender |-> "male", location |-> "Paris, FR", age |-> "18-25",
             keywords |-> <<"art">>]
ProfileH == [gender |-> "male", location |-> "Lyon, FR", age |-> "26-35",
             keywords |-> <<"golf">>]

ProfileOf(s) == IF s % 2 = 1 THEN ProfileA ELSE ProfileB

PrefsAny == [chatType |-> "", gender |-> "", age |-> ""]
PrefsPicky == [chatType |-> "", gender |-> "female", age |-> "46+"]
FindPrefs == {PrefsAny, PrefsPicky}

IssueTypes == {"spam", "other"}

\* The kinds of report of SpecReport.
ReportKinds == {"harassment", "inappropriate", "inappropriate_content", "spam", "other"}
EndReasons == {"user_action", "stranger_disconnected"}

(***************************************************************************)
(* Initial state: the three managers as their constructors leave them.     *)
(***************************************************************************)
NoCall == [op |-> "none", id |-> Null, ret |-> FALSE]

Init ==
    /\ now = 0
    /\ userObj = <<>>
    /\ users = [s \in Sockets |-> Null]
    /\ usersByUserId = {}
    /\ sessionTimeouts = <<>>
    /\ sessionTimers = {}
    /\ matchingQueue = <<>>
    /\ chatObj = <<>>
    /\ chats = {}
    /\ userChats = <<>>
    /\ chatHistory = <<>>
    /\ chatTimers = {}
    /\ totalChats = 0
    /\ totalMessages = 0
    /\ averageChatDuration = 0
    /\ microtasks = <<>>
    /\ draining = FALSE
    /\ pairCount = <<>>
    /\ endReturns = <<>>
    /\ lastCall = NoCall

(***************************************************************************)
(* The event loop.                                                         *)
(***************************************************************************)
Continuation(kind, userId, match, chatType, queueArray, i) ==
    [kind |-> kind, userId |-> userId, match |-> match, chatType |-> chatType,
     queueArray |-> queueArray, i |-> i]

\* The record of a call kept in lastCall.
Call(op, id, ret) == [op |-> op, id |-> id, ret |-> ret]

\* A socket event handler may start while continuations of the same batch wait.
canStartHandler(s) ==
    /\ ~draining
    /\ \A k \in DOMAIN microtasks : userObj[microtasks[k].userId].socketId = s

\* A timer or interval callback starts only when no continuation waits.
canStartCallback == microtasks = <<>>

\* The head continuation has run and queued the continuations in `more`.
drained(more) ==
    /\ microtasks' = Tail(microtasks) \o more
    /\ draining' = (Tail(microtasks) \o more # <<>>)

(***************************************************************************)
(* The dispatcher: RandomChatServer's socket handlers.                     *)
(***************************************************************************)
\* A pair was produced: both members count one more pair since they were enqueued.
paired(counts, a, b) ==
    [u \in DOMAIN counts |-> IF u \in {a, b} THEN Min(counts[u] + 1, 2) ELSE counts[u]]

\* addToQueue stored a new entry for userId.
enqueued(counts, Q, userId) ==
    IF inQueue(Q, userId) THEN counts ELSE [counts EXCEPT ![userId] = 0]

\* socket.on('register-user'): handleUserRegistration.
HandleUserRegistration(s, profile) ==
    /\ canStartHandler(s)
    /\ SetReg(createUser(Reg, s, profile, now))
    /\ pairCount' = Append(pairCount, 0)
    /\ UNCHANGED <<now, matchingQueue, chatObj, chats, userChats, chatHistory, chatTimers, totalChats, totalMessages, averageChatDuration,
                   microtasks, draining, endReturns, lastCall>>

\* socket.on('find-match'): handleFindMatch up to the await inside findMatch.
\* addToQueue and findBestMatch have run; the continuation holds the match selected.
HandleFindMatchStart(s, preferences) ==
    /\ canStartHandler(s)
    /\ getUser(Reg, s) # Null
    /\ LET userId == getUser(Reg, s)
           Q == addToQueue(matchingQueue, userId, preferences, now)
           match == findBestMatch(Q, entryOf(Q, userId), now)
       IN /\ ~addToQueueThrows(matchingQueue, userId)
          /\ matchingQueue' = Q
          /\ pairCount' = enqueued(pairCount, matchingQueue, userId)
          /\ microtasks' = Append(microtasks,
                 Continuation("findMatch", userId, match.userId, preferences.chatType,
                              <<>>, 0))
    /\ UNCHANGED <<now, userObj, users, usersByUserId, sessionTimeouts, sessionTimers,
                   chatObj, chats, userChats, chatHistory, chatTimers, totalChats, totalMessages, averageChatDuration,
                   draining, endReturns, lastCall>>

\* findMatch after its await: both entries removed, match.user returned to
\* handleFindMatch, which awaits it in turn.
FindMatchResume ==
    /\ microtasks # <<>>
    /\ microtasks[1].kind = "findMatch"
    /\ LET call == microtasks[1] IN
       /\ IF call.match # Null
          THEN /\ matchingQueue' = removeFromQueue(
                       removeFromQueue(matchingQueue, call.userId), call.match)
               /\ pairCount' = paired(pairCount, call.userId, call.match)
          ELSE UNCHANGED <<matchingQueue, pairCount>>
       /\ drained(<<[call EXCEPT !.kind = "handleFindMatch"]>>)
    /\ UNCHANGED <<now, userObj, users, usersByUserId, sessionTimeouts, sessionTimers,
                   chatObj, chats, userChats, chatHistory, chatTimers, totalChats, totalMessages, averageChatDuration,
                   endReturns, lastCall>>

\* handleFindMatch after its await: the room is created for a match.
\* An undefined chatType takes createChat's default.
HandleFindMatchResume ==
    /\ microtasks # <<>>
    /\ microtasks[1].kind = "handleFindMatch"
    /\ LET call == microtasks[1] IN
       IF call.match # Null
       THEN /\ SetChat(createChat(Chat, call.userId, call.match,
                                  IF call.chatType = "" THEN "text" ELSE call.chatType,
                                  now))
            /\ endReturns' = Append(endReturns, <<>>)
       ELSE UNCHANGED <<chatObj, chats, userChats, chatHistory, chatTimers, totalChats, totalMessages, averageChatDuration, endReturns>>
    /\ drained(<<>>)
    /\ UNCHANGED <<now, userObj, users, usersByUserId, sessionTimeouts, sessionTimers,
                   matchingQueue, pairCount, lastCall>>

\* socket.on('chat-message'): handleChatMessage with a message that passes validation.
HandleChatMessage(s) ==
    /\ canStartHandler(s)
    /\ getUser(Reg, s) # Null
    /\ getUserCurrentChat(Chat, getUser(Reg, s)) # Null
    /\ SetChat(addMessage(Chat, getUserCurrentChat(Chat, getUser(Reg, s)),
                          [senderId |-> getUser(Reg, s)], now))
    /\ endReturns' = endCalled(endReturns, Chat,
           limitReached(Chat, getUserCurrentChat(Chat, getUser(Reg, s))))
    /\ UNCHANGED <<now, userObj, users, usersByUserId, sessionTimeouts, sessionTimers,
                   matchingQueue, microtasks, draining, pairCount, lastCall>>

\* socket.on('end-chat'): handleEndChat.
HandleEndChat(s) ==
    /\ canStartHandler(s)
    /\ getUser(Reg, s) # Null
    /\ getUserCurrentChat(Chat, getUser(Reg, s)) # Null
    /\ LET userId == getUser(Reg, s)
           chatId == getUserCurrentChat(Chat, userId)
       IN /\ SetChat(endChat(Chat, chatId, "user_action", Null, now))
          /\ endReturns' = [endReturns EXCEPT ![chatId] = Append(@, endChatResult(Chat, chatId))]
          /\ matchingQueue' = removeFromQueue(matchingQueue, userId)
    /\ UNCHANGED <<now, userObj, users, usersByUserId, sessionTimeouts, sessionTimers,
                   microtasks, draining, pairCount, lastCall>>

\* socket.on('disconnect'): handleDisconnect, on the close of the transport.
HandleDisconnect(s) ==
    /\ canStartCallback
    /\ getUser(Reg, s) # Null
    /\ LET userId == getUser(Reg, s)
           chatId == getUserCurrentChat(Chat, userId)
       IN /\ IF chatId # Null
             THEN /\ SetChat(endChat(Chat, chatId, "user_action", Null, now))
                  /\ endReturns' = [endReturns EXCEPT
                                       ![chatId] = Append(@, endChatResult(Chat, chatId))]
             ELSE UNCHANGED <<chatObj, chats, userChats, chatHistory, chatTimers, totalChats, totalMessages, averageChatDuration, endReturns>>
          /\ matchingQueue' = removeFromQueue(matchingQueue, userId)
          /\ SetReg(removeUser(Reg, s))
    /\ UNCHANGED <<now, microtasks, draining, pairCount, lastCall>>

(***************************************************************************)
(* The background tasks: the match loop and the two sweeps.                *)
(***************************************************************************)
\* The iteration of processMatchingQueue on queueArray[i], up to its await.
loopIteration(queueArray, i, t) ==
    Continuation("loop", queueArray[i].userId,
                 bestOfPool(queueArray[i], SubSeq(queueArray, i + 1, Len(queueArray)), t).userId,
                 "", queueArray, i)

\* The iterations of processMatchingQueue from the one that has reached its
\* await in `call`, run one after the other: the iteration that found a match
\* and broke out of the loop, or the last iteration of the pass.
RECURSIVE loopPass(_, _)
loopPass(call, t) ==
    IF call.match # Null \/ call.i + 1 > Min(Len(call.queueArray), 10)
    THEN call
    ELSE loopPass(loopIteration(call.queueArray, call.i + 1, t), t)

\* processMatchingQueue from its call to the await of the first iteration.
ProcessMatchingQueueStart ==
    /\ canStartCallback
    /\ Len(matchingQueue) >= 2
    /\ microtasks' = <<loopIteration(sortedQueue(matchingQueue, now), 1, now)>>
    /\ draining' = TRUE
    /\ UNCHANGED <<now, userObj, users, usersByUserId, sessionTimeouts, sessionTimers,
                   matchingQueue, chatObj, chats, userChats, chatHistory, chatTimers, totalChats, totalMessages, averageChatDuration,
                   pairCount, endReturns, lastCall>>

\* processMatchingQueue after an await.  emitMatchFound calls this.onMatchFound,
\* which the server never sets: the pair is removed and nothing else happens.
\* processMatchingQueue that takes every entry of the queue as a requester.
ProcessMatchingQueueResumeWith_noLimit(onMatchFound) ==
    /\ microtasks # <<>>
    /\ microtasks[1].kind = "loop"
    /\ LET call == microtasks[1] IN
       IF call.match # Null
       THEN /\ matchingQueue' = removeFromQueue(
                    removeFromQueue(matchingQueue, call.userId), call.match)
            /\ pairCount' = paired(pairCount, call.userId, call.match)
            /\ drained(<<>>)
       ELSE /\ UNCHANGED <<matchingQueue, pairCount>>
            /\ drained(IF call.i + 1 <= Len(call.queueArray)
                       THEN <<loopIteration(call.queueArray, call.i + 1, now)>>
                       ELSE <<>>)
    /\ UNCHANGED <<now, userObj, users, usersByUserId, sessionTimeouts, sessionTimers,
                   chatObj, chats, userChats, chatHistory, chatTimers, totalChats, totalMessages, averageChatDuration,
                   endReturns, lastCall>>

\* A pass of processMatchingQueue after the await of one iteration, in an engine
\* whose match-found callback is set (onMatchFound) or not: emitMatchFound runs
\* the callback, which sees the queue as it is at that point, before the two
\* entries are removed.
ProcessMatchingQueueResumeWith(onMatchFound) ==
    /\ microtasks # <<>>
    /\ microtasks[1].kind = "loop"
    /\ LET call == microtasks[1] IN
       IF call.match # Null
       THEN /\ lastCall' = IF onMatchFound
                           THEN Call("onMatchFound", call.userId,
                                     [match |-> call.match,
                                      entry1Queued |-> inQueue(matchingQueue, call.userId),
                                      entry2Queued |-> inQueue(matchingQueue, call.match)])
                           ELSE lastCall
            /\ matchingQueue' = removeFromQueue(
                    removeFromQueue(matchingQueue, call.userId), call.match)
            /\ pairCount' = paired(pairCount, call.userId, call.match)
            /\ drained(<<>>)
       ELSE /\ UNCHANGED <<matchingQueue, pairCount, lastCall>>
            /\ drained(IF call.i + 1 <= Min(Len(call.queueArray), 10)
                       THEN <<loopIteration(call.queueArray, call.i + 1, now)>>
                       ELSE <<>>)
    /\ UNCHANGED <<now, userObj, users, usersByUserId, sessionTimeouts, sessionTimers,
                   chatObj, chats, userChats, chatHistory, chatTimers, totalChats, totalMessages, averageChatDuration,
                   endReturns>>

\* The server sets no match-found callback.
ProcessMatchingQueueResume == ProcessMatchingQueueResumeWith(FALSE)

\* setInterval(() => this.matchingEngine.cleanupQueue(), 60 * 1000)
CleanupQueueTask ==
    /\ canStartCallback
    /\ matchingQueue' = cleanupQueue(matchingQueue, now)
    /\ UNCHANGED <<now, userObj, users, usersByUserId, sessionTimeouts, sessionTimers,
                   chatObj, chats, userChats, chatHistory, chatTimers, totalChats, totalMessages, averageChatDuration,
                   microtasks, draining, pairCount, endReturns, lastCall>>

\* The clock advances by d minutes, between two tasks.
Tick(d, limit) ==
    /\ canStartCallback
    /\ now + d <= limit
    /\ now' = now + d
    /\ UNCHANGED <<userObj, users, usersByUserId, sessionTimeouts, sessionTimers,
                   matchingQueue, chatObj, chats, userChats, chatHistory, chatTimers, totalChats, totalMessages, averageChatDuration,
                   microtasks, draining, pairCount, endReturns, lastCall>>

(***************************************************************************)
(* Spec: the server.  Clients register, look for a match, talk, end the    *)
(* chat and disconnect; the match loop and the stale sweep run in between. *)
(***************************************************************************)
Next ==
    \/ \E s \in Sockets : Len(userObj) < MaxUsers /\ HandleUserRegistration(s, ProfileOf(s))
    \/ \E s \in Sockets, preferences \in FindPrefs :
           Len(microtasks) < MaxInFlight /\ HandleFindMatchStart(s, preferences)
    \/ FindMatchResume
    \/ Len(chatObj) < MaxChats /\ HandleFindMatchResume
    \/ \E s \in Sockets :
           /\ \A c \in chats : Len(chatObj[c].messages) < MaxMsgs
           /\ HandleChatMessage(s)
    \/ \E s \in Sockets : HandleEndChat(s)
    \/ \E s \in Sockets : HandleDisconnect(s)
    \/ ProcessMatchingQueueStart
    \/ ProcessMatchingQueueResume
    \/ CleanupQueueTask
    \/ Tick(maxWaitTime + 1, MaxTime)

Spec == Init /\ [][Next]_vars

(***************************************************************************)
(* The managers called directly.  lastCall holds the call of the step and  *)
(* what it returned; endReturns[chatId] holds what each endChat(chatId)    *)
(* returned, in order, whoever called it.                                  *)
(***************************************************************************)

unchangedByChatManager ==
    UNCHANGED <<userObj, users, usersByUserId, sessionTimeouts, sessionTimers,
                matchingQueue, microtasks, draining, pairCount>>

\* chatManager.createChat(user1Id, user2Id, chatType)
CreateChat(user1Id, user2Id, chatType) ==
    /\ SetChat(createChat(Chat, user1Id, user2Id, chatType, now))
    /\ endReturns' = Append(endReturns, <<>>)
    /\ lastCall' = Call("createChat", Len(chatObj) + 1, TRUE)
    /\ UNCHANGED now
    /\ unchangedByChatManager

\* chatManager.addMessage(chatId, message); at the limit it ends the chat.
AddMessage(chatId, senderId) ==
    /\ SetChat(addMessage(Chat, chatId, [senderId |-> senderId], now))
    /\ endReturns' = endCalled(endReturns, Chat, limitReached(Chat, chatId))
    /\ lastCall' = Call("addMessage", chatId, addMessageResult(Chat, chatId))
    /\ UNCHANGED now
    /\ unchangedByChatManager

\* chatManager.endChat(chatId, reason, endedBy)
EndChat(chatId, reason, endedBy) ==
    /\ SetChat(endChat(Chat, chatId, reason, endedBy, now))
    /\ endReturns' = endCalled(endReturns, Chat, {chatId})
    /\ lastCall' = Call("endChat", chatId, endChatResult(Chat, chatId))
    /\ UNCHANGED now
    /\ unchangedByChatManager

\* chatManager.updateActivity(chatId, activityType, data) returns nothing.
UpdateActivity(chatId) ==
    /\ SetChat(updateActivity(Chat, chatId, now))
    /\ lastCall' = Call("updateActivity", chatId, FALSE)
    /\ UNCHANGED <<now, endReturns>>
    /\ unchangedByChatManager

\* chatManager.reportIssue(chatId, reporterId, issueType, description)
ReportIssue(chatId, reporterId, issueType) ==
    /\ SetChat(reportIssue(Chat, chatId, reporterId, issueType, now))
    /\ endReturns' = endCalled(endReturns, Chat,
           {c \in {chatId} : c \in chats /\ issueType \in severeIssues})
    /\ lastCall' = Call("reportIssue", chatId, reportIssueResult(Chat, chatId))
    /\ UNCHANGED now
    /\ unchangedByChatManager

\* chatManager.cleanupInactiveChats(inactivityThreshold)
CleanupInactiveChatsWith(inactivityThreshold) ==
    /\ SetChat(cleanupInactiveChats(Chat, inactivityThreshold, now))
    /\ endReturns' = endCalled(endReturns, Chat,
                               inactiveChats(Chat, inactivityThreshold, now))
    /\ lastCall' = Call("cleanupInactiveChats", inactivityThreshold,
                        cleanupInactiveChatsResult(Chat, inactivityThreshold, now))
    /\ UNCHANGED now
    /\ unchangedByChatManager

\* chatManager.cleanupInactiveChats(), with the default threshold.
CleanupInactiveChats == CleanupInactiveChatsWith(defaultInactivityThreshold)

\* A timer armed by setChatTimeout fires: its callback calls endChat(chatId, 'timeout').
ChatTimerFire(timer) ==
    /\ timer \in chatTimers
    /\ now >= timer.deadline
    /\ SetChat(chatTimeoutCallback([Chat EXCEPT !.chatTimers = @ \ {timer}],
                                   timer.chatId, now))
    /\ endReturns' = endCalled(endReturns, Chat, {timer.chatId})
    /\ lastCall' = Call("chatTimeout", timer.chatId, endChatResult(Chat, timer.chatId))
    /\ UNCHANGED now
    /\ unchangedByChatManager

\* The instants at which a pending timer of setSessionTimeout or setChatTimeout
\* is due.
deadlines ==
    {timer.deadline : timer \in sessionTimers} \cup {timer.deadline : timer \in chatTimers}

\* The instants the clock may stop at after minute t: the next multiple of d
\* minutes and the deadlines of the pending timers that come before it.
instantsAfter(t, d) ==
    {t + d - (t % d)} \cup {x \in deadlines : t < x /\ x < t + d - (t % d)}

\* The first of them.
nextInstant(t, d) ==
    CHOOSE x \in instantsAfter(t, d) : \A y \in instantsAfter(t, d) : x <= y

\* The clock advances between two calls, to the next multiple of d minutes or
\* to the deadline of a timer that is due before it: Date.now() at the next
\* call or timer callback.
Advance(d, limit) ==
    /\ nextInstant(now, d) <= limit
    /\ now' = nextInstant(now, d)
    /\ lastCall' = Call("advance", Null, FALSE)
    /\ UNCHANGED <<regVars, queueVars, chatVars, asyncVars, pairCount, endReturns>>

unchangedByUserManager ==
    UNCHANGED <<now, matchingQueue, chatObj, chats, userChats, chatHistory, chatTimers, totalChats, totalMessages, averageChatDuration,
                microtasks, draining, endReturns>>

\* userManager.createUser(socketId, profile)
CreateUser(socketId, profile) ==
    /\ SetReg(createUser(Reg, socketId, profile, now))
    /\ pairCount' = Append(pairCount, 0)
    /\ lastCall' = Call("createUser", Len(userObj) + 1, TRUE)
    /\ unchangedByUserManager

\* userManager.setCurrentChat(socketId, chatId) returns nothing.
SetCurrentChat(socketId, chatId) ==
    /\ SetReg(setCurrentChat(Reg, socketId, chatId, now))
    /\ lastCall' = Call("setCurrentChat", chatId, FALSE)
    /\ UNCHANGED pairCount
    /\ unchangedByUserManager

\* userManager.clearCurrentChat(socketId) returns nothing.
ClearCurrentChat(socketId) ==
    /\ SetReg(clearCurrentChat(Reg, socketId, now))
    /\ lastCall' = Call("clearCurrentChat", Null, FALSE)
    /\ UNCHANGED pairCount
    /\ unchangedByUserManager

\* userManager.updateActivity(socketId) returns nothing.
UpdateUserActivity(socketId) ==
    /\ SetReg(updateUserActivity(Reg, socketId, now))
    /\ lastCall' = Call("updateActivity", getUser(Reg, socketId), FALSE)
    /\ UNCHANGED pairCount
    /\ unchangedByUserManager

\* userManager.updateProfile(socketId, profileUpdates)
UpdateProfile(socketId, profileUpdates) ==
    /\ SetReg(updateProfile(Reg, socketId, profileUpdates, now))
    /\ lastCall' = Call("updateProfile", getUser(Reg, socketId),
                        [returned |-> updateProfileResult(Reg, socketId),
                         profileUpdates |-> profileUpdates])
    /\ UNCHANGED pairCount
    /\ unchangedByUserManager

\* userManager.updateStats(socketId, statUpdates) returns nothing.
UpdateStats(socketId, statUpdates) ==
    /\ SetReg(updateStats(Reg, socketId, statUpdates, now))
    /\ lastCall' = Call("updateStats", getUser(Reg, socketId), FALSE)
    /\ UNCHANGED pairCount
    /\ unchangedByUserManager

\* userManager.flagUser(userId, violationType) returns nothing.
FlagUser(userId) ==
    /\ SetReg(flagUser(Reg, userId))
    /\ lastCall' = Call("flagUser", userId, FALSE)
    /\ UNCHANGED pairCount
    /\ unchangedByUserManager

\* userManager.banUser(userId, reason) returns nothing.
BanUser(userId) ==
    /\ SetReg(banUser(Reg, userId))
    /\ lastCall' = Call("banUser", userId, FALSE)
    /\ UNCHANGED pairCount
    /\ unchangedByUserManager

\* userManager.removeUser(socketId)
RemoveUser(socketId) ==
    /\ SetReg(removeUser(Reg, socketId))
    /\ lastCall' = Call("removeUser", getUser(Reg, socketId),
                        removeUserResult(Reg, socketId))
    /\ UNCHANGED pairCount
    /\ unchangedByUserManager

\* userManager.cleanupInactiveUsers(inactivityThreshold)
CleanupInactiveUsersWith(inactivityThreshold) ==
    /\ SetReg(cleanupInactiveUsers(Reg, inactivityThreshold, now))
    /\ lastCall' = Call("cleanupInactiveUsers", inactivityThreshold,
                        cleanupInactiveUsersResult(Reg, inactivityThreshold, now))
    /\ UNCHANGED pairCount
    /\ unchangedByUserManager

\* userManager.cleanupInactiveUsers(), the threshold defaulted.
CleanupInactiveUsers == CleanupInactiveUsersWith(defaultUserInactivityThreshold)

\* A timer of setSessionTimeout fires, on time or late, and runs its callback.
SessionTimerFire(timer) ==
    /\ timer \in sessionTimers
    /\ now >= timer.deadline
    /\ SetReg(sessionTimeoutCallback([Reg EXCEPT !.sessionTimers = @ \ {timer}],
                                     timer.userId))
    /\ lastCall' = Call("sessionTimeout", timer.userId, timer.userId \in usersByUserId)
    /\ UNCHANGED pairCount
    /\ unchangedByUserManager

unchangedByMatchingEngine ==
    UNCHANGED <<now, regVars, chatVars, asyncVars, endReturns>>

\* What matchingEngine.addToQueue gave its caller: the entry, or the error.
Returned(entry) == [thrown |-> FALSE, entry |-> entry]
Thrown == [thrown |-> TRUE, entry |-> NoMatch]

\* matchingEngine.addToQueue(user, preferences)
AddToQueue(userId, preferences) ==
    /\ matchingQueue' = IF addToQueueThrows(matchingQueue, userId)
                        THEN matchingQueue
                        ELSE addToQueue(matchingQueue, userId, preferences, now)
    /\ pairCount' = IF addToQueueThrows(matchingQueue, userId)
                    THEN pairCount
                    ELSE enqueued(pairCount, matchingQueue, userId)
    /\ lastCall' = Call("addToQueue", userId,
                        IF addToQueueThrows(matchingQueue, userId)
                        THEN Thrown
                        ELSE Returned(addToQueueResult(matchingQueue, userId,
                                                       preferences, now)))
    /\ unchangedByMatchingEngine

\* matchingEngine.removeFromQueue(userId)
RemoveFromQueue(userId) ==
    /\ matchingQueue' = removeFromQueue(matchingQueue, userId)
    /\ lastCall' = Call("removeFromQueue", userId,
                        removeFromQueueResult(matchingQueue, userId))
    /\ UNCHANGED pairCount
    /\ unchangedByMatchingEngine

\* matchingEngine.getQueuePosition(userId)
GetQueuePosition(userId) ==
    /\ lastCall' = Call("getQueuePosition", userId,
                        getQueuePosition(matchingQueue, userId))
    /\ UNCHANGED <<matchingQueue, pairCount>>
    /\ unchangedByMatchingEngine

\* matchingEngine.findBestMatch(queueEntry) on the entry of a queued user; what
\* it resolves to is the userId of the candidate, or null.
FindBestMatch(userId) ==
    /\ inQueue(matchingQueue, userId)
    /\ lastCall' = Call("findBestMatch", userId,
                        findBestMatch(matchingQueue, entryOf(matchingQueue, userId),
                                      now).userId)
    /\ UNCHANGED <<matchingQueue, pairCount>>
    /\ unchangedByMatchingEngine

\* matchingEngine.cleanupQueue()
CleanupQueue ==
    /\ matchingQueue' = cleanupQueue(matchingQueue, now)
    /\ lastCall' = Call("cleanupQueue", Null, cleanupQueueResult(matchingQueue, now))
    /\ UNCHANGED pairCount
    /\ unchangedByMatchingEngine

\* processMatchingQueue has run to its end: the pair of the iteration `call`
\* stopped at is removed from the queue, if that iteration found one.
processMatchingQueueEnds(call) ==
    /\ matchingQueue' = IF call.match # Null
                        THEN removeFromQueue(removeFromQueue(matchingQueue, call.userId),
                                             call.match)
                        ELSE matchingQueue
    /\ pairCount' = IF call.match # Null
                    THEN paired(pairCount, call.userId, call.match)
                    ELSE pairCount
    /\ lastCall' = Call("processMatchingQueue",
                        IF call.match # Null THEN call.userId ELSE Null, call.match)

\* A run of the match loop the constructor of the MatchingEngine starts
\* (startMatchingLoop: setInterval of processMatchingQueue every
\* matchingInterval), between two calls of a caller that makes no call while
\* the pass awaits: the pass from its call to its end.  With fewer than two
\* entries in the queue it returns at once.
ProcessMatchingQueue ==
    /\ canStartCallback
    /\ IF Len(matchingQueue) < 2
       THEN /\ lastCall' = Call("processMatchingQueue", Null, Null)
            /\ UNCHANGED <<matchingQueue, pairCount>>
       ELSE processMatchingQueueEnds(
                loopPass(loopIteration(sortedQueue(matchingQueue, now), 1, now), now))
    /\ unchangedByMatchingEngine

\* matchingEngine.getMinimumCompatibility(queueEntry) on the entry of a queued
\* user, with the minutes the entry has waited.
GetMinimumCompatibility(userId) ==
    /\ inQueue(matchingQueue, userId)
    /\ lastCall' = Call("getMinimumCompatibility", userId,
                        [waitMinutes |-> now - entryOf(matchingQueue, userId).queuedAt,
                         threshold |-> getMinimumCompatibility(
                                           entryOf(matchingQueue, userId), now)])
    /\ UNCHANGED <<matchingQueue, pairCount>>
    /\ unchangedByMatchingEngine

\* matchingEngine.calculateCompatibility(entry1, entry2) on the entries at two
\* places of the queue.
CalculateCompatibility(i, j) ==
    /\ lastCall' = Call("calculateCompatibility", Null,
                        [entry1 |-> i, entry2 |-> j,
                         score |-> calculateCompatibility(matchingQueue[i],
                                                          matchingQueue[j])])
    /\ UNCHANGED <<matchingQueue, pairCount>>
    /\ unchangedByMatchingEngine

\* matchingEngine.findMatch(user, preferences) up to its await: addToQueue and
\* findBestMatch have run, the continuation holds the match selected.
FindMatchCall(userId, preferences) ==
    /\ ~draining
    /\ ~addToQueueThrows(matchingQueue, userId)
    /\ LET Q == addToQueue(matchingQueue, userId, preferences, now)
           match == findBestMatch(Q, entryOf(Q, userId), now)
       IN /\ matchingQueue' = Q
          /\ microtasks' = Append(microtasks,
                 Continuation("findMatch", userId, match.userId, preferences.chatType,
                              <<>>, 0))
    /\ pairCount' = enqueued(pairCount, matchingQueue, userId)
    /\ lastCall' = Call("findMatchCall", userId, FALSE)
    /\ UNCHANGED <<now, regVars, chatVars, draining, endReturns>>

\* matchingEngine.findMatch after its await: both entries removed and match.user
\* returned to the caller, or null.
FindMatchReturn ==
    /\ microtasks # <<>>
    /\ microtasks[1].kind = "findMatch"
    /\ LET call == microtasks[1] IN
       /\ IF call.match # Null
          THEN /\ matchingQueue' = removeFromQueue(
                       removeFromQueue(matchingQueue, call.userId), call.match)
               /\ pairCount' = paired(pairCount, call.userId, call.match)
          ELSE UNCHANGED <<matchingQueue, pairCount>>
       /\ lastCall' = Call("findMatch", call.userId, call.match)
    /\ drained(<<>>)
    /\ UNCHANGED <<now, regVars, chatVars, endReturns>>

(***************************************************************************)
(* SpecRooms: the ChatManager under any sequence of calls, on chats that   *)
(* are active, ended or were never created, with its timers firing on     *)
(* time or late.                                                           *)
(***************************************************************************)
RoomUserIds == 1..RoomUsers

RoomChatIds == 1..RoomMaxChats

\* The senders named in addMessage: the users and one who is in no chat.
RoomSenderIds == 1..(RoomUsers + 1)

NextRooms ==
    \/ \E u1, u2 \in RoomUserIds :
           /\ u1 # u2
           /\ Len(chatObj) < RoomMaxChats
           /\ CreateChat(u1, u2, "text")
    \/ \E c \in RoomChatIds, u \in RoomSenderIds :
           /\ addMessageResult(Chat, c) => Len(chatObj[c].messages) < RoomMaxMsgs
           /\ AddMessage(c, u)
    \/ \E c \in ChatIdsOf, reason \in EndReasons :
           /\ Len(endReturns[c]) < RoomMaxEnds
           /\ EndChat(c, reason, chatObj[c].participants[1])
    \/ \E c \in RoomChatIds : UpdateActivity(c)
    \/ \E c \in RoomChatIds, issueType \in IssueTypes :
           /\ reportIssueResult(Chat, c) => Len(chatObj[c].reports) < RoomMaxReports
           /\ ReportIssue(c, 1, issueType)
    \/ CleanupInactiveChats
    \/ \E timer \in chatTimers : ChatTimerFire(timer)
    \/ Advance(defaultInactivityThreshold + 1, RoomMaxTime)

SpecRooms == Init /\ [][NextRooms]_vars

(***************************************************************************)
(* SpecCap: one chat at a time filled with messages up to the limit and    *)
(* beyond; the next chat is created once the limit has ended the last one. *)
(***************************************************************************)
NextCap ==
    \/ /\ chats = {}
       /\ Len(chatObj) < CapMaxChats
       /\ CreateChat(1, 2, "text")
    \/ \E c \in ChatIdsOf : AddMessage(c, chatObj[c].participants[1])

SpecCap == Init /\ [][NextCap]_vars

(***************************************************************************)
(* SpecApi: the UserManager and the ChatManager called side by side, the   *)
(* caller recording the chat on the users and ending it.                   *)
(***************************************************************************)
NextApi ==
    \/ \E s \in Sockets :
           /\ Len(userObj) < ApiMaxUsers
           /\ CreateUser(s, ProfileOf(s))
    \/ \E u1, u2 \in UserIdsOf :
           /\ u1 # u2
           /\ getUserById(Reg, u1) # Null
           /\ getUserById(Reg, u2) # Null
           /\ Len(chatObj) < ApiMaxChats
           /\ CreateChat(u1, u2, "text")
    \/ \E s \in Sockets, c \in chats :
           /\ getUser(Reg, s) # Null
           /\ getUser(Reg, s) \in Range(chatObj[c].participants)
           /\ SetCurrentChat(s, c)
    \/ \E s \in Sockets : getUser(Reg, s) # Null /\ ClearCurrentChat(s)
    \/ \E c \in ChatIdsOf :
           /\ Len(endReturns[c]) < ApiMaxEnds
           /\ EndChat(c, "user_action", chatObj[c].participants[1])

SpecApi == Init /\ [][NextApi]_vars

(***************************************************************************)
(* SpecSweep: chats created and kept active at different times, and the    *)
(* sweep called with the default threshold or half of it, before any chat  *)
(* timer is due.                                                           *)
(***************************************************************************)
SweepThresholds == {defaultInactivityThreshold, defaultInactivityThreshold \div 2}

NextSweep ==
    \/ /\ Len(chatObj) < SweepMaxChats
       /\ CreateChat(2 * Len(chatObj) + 1, 2 * Len(chatObj) + 2, "text")
    \/ \E c \in ChatIdsOf : UpdateActivity(c)
    \/ \E threshold \in SweepThresholds : CleanupInactiveChatsWith(threshold)
    \/ Advance(defaultInactivityThreshold \div 2, SweepMaxTime)

SpecSweep == Init /\ [][NextSweep]_vars

(***************************************************************************)
(* SpecRegistry: the UserManager under any sequence of calls that update   *)
(* or remove a session (removeUser, cleanupInactiveUsers), with the clock  *)
(* advancing and the session timers firing on time or late.                *)
(***************************************************************************)
StatUpdates == {[totalMessages |-> 1], [violations |-> 0]}
\* A threshold a caller of cleanupInactiveUsers passes, shorter than the default.
UserThresholds == {defaultSessionTimeout \div 2}

NextRegistry ==
    \/ \E s \in Sockets :
           /\ Len(userObj) < RegMaxUsers
           /\ CreateUser(s, ProfileOf(s))
    \/ \E s \in Sockets : getUser(Reg, s) # Null /\ UpdateUserActivity(s)
    \/ \E s \in Sockets, profileUpdates \in {ProfileA, ProfileB} :
           getUser(Reg, s) # Null /\ UpdateProfile(s, profileUpdates)
    \/ \E s \in Sockets : getUser(Reg, s) # Null /\ SetCurrentChat(s, 1)
    \/ \E s \in Sockets : getUser(Reg, s) # Null /\ ClearCurrentChat(s)
    \/ \E s \in Sockets, statUpdates \in StatUpdates :
           getUser(Reg, s) # Null /\ UpdateStats(s, statUpdates)
    \/ \E s \in Sockets : RemoveUser(s)
    \/ CleanupInactiveUsers
    \/ \E inactivityThreshold \in UserThresholds : CleanupInactiveUsersWith(inactivityThreshold)
    \/ \E timer \in sessionTimers : SessionTimerFire(timer)
    \/ Advance(defaultSessionTimeout \div 2, RegMaxTime)

SpecRegistry == Init /\ [][NextRegistry]_vars

(***************************************************************************)
(* SpecIdle: sessions created on any socket, registered or not, kept       *)
(* alive, removed or swept by cleanupInactiveUsers, with their timers      *)
(* firing on time or late.                                                 *)
(***************************************************************************)
NextIdle ==
    \/ \E s \in Sockets :
           /\ Len(userObj) < IdleMaxUsers
           /\ CreateUser(s, ProfileA)
    \/ \E s \in Sockets : getUser(Reg, s) # Null /\ UpdateUserActivity(s)
    \/ \E s \in Sockets : getUser(Reg, s) # Null /\ RemoveUser(s)
    \/ CleanupInactiveUsers
    \/ \E timer \in sessionTimers : SessionTimerFire(timer)
    \/ Advance(defaultSessionTimeout \div 2, IdleMaxTime)

SpecIdle == Init /\ [][NextIdle]_vars

(***************************************************************************)
(* SpecFlags: sessions flagged and banned, between any other calls of the  *)
(* UserManager on them.                                                    *)
(***************************************************************************)
NextFlags ==
    \/ \E s \in Sockets :
           /\ Len(userObj) < FlagMaxUsers
           /\ getUser(Reg, s) = Null
           /\ CreateUser(s, ProfileOf(s))
    \/ \E u \in UserIdsOf :
           /\ userObj[u].violations < FlagMaxFlags
           /\ FlagUser(u)
    \/ \E u \in UserIdsOf : BanUser(u)
    \/ \E s \in Sockets : getUser(Reg, s) # Null /\ UpdateUserActivity(s)
    \/ \E s \in Sockets : getUser(Reg, s) # Null /\ UpdateProfile(s, ProfileB)
    \/ \E s \in Sockets : getUser(Reg, s) # Null /\ UpdateStats(s, [totalMessages |-> 1])
    \/ \E s \in Sockets : getUser(Reg, s) # Null /\ SetCurrentChat(s, 1)
    \/ \E s \in Sockets : getUser(Reg, s) # Null /\ ClearCurrentChat(s)
    \/ \E s \in Sockets : getUser(Reg, s) # Null /\ RemoveUser(s)

SpecFlags == Init /\ [][NextFlags]_vars

(***************************************************************************)
(* SpecQueue: the queue of the MatchingEngine called with users of the     *)
(* UserManager, who are flagged or banned between the calls.               *)
(***************************************************************************)
NextQueue ==
    \/ \E s \in Sockets :
           /\ Len(userObj) < QueueMaxUsers
           /\ getUser(Reg, s) = Null
           /\ CreateUser(s, ProfileOf(s))
    \/ \E u \in UserIdsOf :
           /\ userObj[u].violations < QueueMaxFlags
           /\ FlagUser(u)
    \/ \E u \in UserIdsOf : BanUser(u)
    \/ \E u \in UserIdsOf, preferences \in FindPrefs : AddToQueue(u, preferences)
    \/ \E u \in UserIdsOf : RemoveFromQueue(u)
    \/ ProcessMatchingQueue
    \/ Advance(1, QueueMaxTime)

SpecQueue == Init /\ [][NextQueue]_vars

(***************************************************************************)
(* SpecQueueCap: users created and queued one after the other up to the    *)
(* limit of the queue and past it, the first of them queued again.         *)
(***************************************************************************)
NextQueueCap ==
    \/ /\ Len(userObj) < maxQueueSize + QueueCapExtra
       /\ Len(matchingQueue) = Min(Len(userObj), maxQueueSize)
       /\ CreateUser(1, ProfileA)
    \/ \E u \in UserIdsOf :
           /\ u = 1 \/ u > Len(matchingQueue)
           /\ AddToQueue(u, PrefsAny)

SpecQueueCap == Init /\ [][NextQueueCap]_vars

(***************************************************************************)
(* SpecEngine: the MatchingEngine called by a caller who does not wait for *)
(* findMatch to return before its next call, with the match loop running   *)
(* between the calls.                                                      *)
(***************************************************************************)
NextEngine ==
    \/ \E s \in Sockets :
           /\ ~draining
           /\ Len(userObj) < EngineMaxUsers
           /\ CreateUser(s, ProfileOf(s))
    \/ \E u \in UserIdsOf, preferences \in FindPrefs :
           /\ Len(microtasks) < MaxInFlight
           /\ FindMatchCall(u, preferences)
    \/ FindMatchReturn
    \/ \E u \in UserIdsOf : ~draining /\ RemoveFromQueue(u)
    \/ ProcessMatchingQueueStart
    \/ ProcessMatchingQueueResume
    \/ Tick(1, EngineMaxTime)

SpecEngine == Init /\ [][NextEngine]_vars

(***************************************************************************)
(* SpecRank: users of different trust and arrival in the queue, and their  *)
(* rank in it.                                                             *)
(***************************************************************************)
NextRank ==
    \/ /\ Len(userObj) < RankMaxUsers
       /\ CreateUser(1, ProfileA)
    \/ \E u \in UserIdsOf :
           /\ userObj[u].violations < RankMaxFlags
           /\ FlagUser(u)
    \/ \E u \in UserIdsOf : ~inQueue(matchingQueue, u) /\ AddToQueue(u, PrefsAny)
    \/ \E u \in UserIdsOf : inQueue(matchingQueue, u) /\ RemoveFromQueue(u)
    \/ \E u \in UserIdsOf : GetQueuePosition(u)
    \/ ProcessMatchingQueue
    \/ Advance(1, RankMaxTime)

SpecRank == Init /\ [][NextRank]_vars

(***************************************************************************)
(* SpecScore: users of every profile and trust score, queued with every    *)
(* preference, and the score of each ordered pair of entries.              *)
(***************************************************************************)
NextScore ==
    \/ \E profile \in ScoreProfiles :
           /\ Len(userObj) < ScoreMaxUsers
           /\ matchingQueue = <<>>
           /\ CreateUser(1, profile)
    \/ \E u \in UserIdsOf :
           /\ userObj[u].violations < ScoreMaxFlags
           /\ matchingQueue = <<>>
           /\ FlagUser(u)
    \/ \E u \in UserIdsOf, preferences \in FindPrefs :
           /\ u = Len(matchingQueue) + 1
           /\ AddToQueue(u, preferences)
    \/ \E i, j \in 1..Len(matchingQueue) : CalculateCompatibility(i, j)

SpecScore == Init /\ [][NextScore]_vars

(***************************************************************************)
(* SpecThreshold: users whose score is 0.25 when both are picky, each      *)
(* queued once, in the order they came in, until the match loop pairs it,  *)
(* the threshold of their entries and the match loop as their wait grows.  *)
(***************************************************************************)
NextThreshold ==
    \/ /\ ~draining
       /\ Len(userObj) < ThresholdMaxUsers
       /\ now = 0
       /\ CreateUser(1, IF Len(userObj) % 2 = 0 THEN ProfileE ELSE ProfileF)
    \/ \E u \in UserIdsOf, preferences \in FindPrefs :
           /\ ~draining
           /\ ~inQueue(matchingQueue, u)
           /\ pairCount[u] = 0
           /\ \A v \in 1..(u - 1) : inQueue(matchingQueue, v) \/ pairCount[v] > 0
           /\ AddToQueue(u, preferences)
    \/ \E u \in UserIdsOf : ~draining /\ GetMinimumCompatibility(u)
    \/ ProcessMatchingQueueStart
    \/ ProcessMatchingQueueResume
    \/ Tick(1, ThresholdMaxTime)

SpecThreshold == Init /\ [][NextThreshold]_vars

(***************************************************************************)
(* SpecStarve: users of unlike profiles, flagged before they queue, and    *)
(* the match loop over their entries as their wait grows to the floor of  *)
(* the threshold.                                                          *)
(***************************************************************************)
NextStarve ==
    \/ /\ ~draining
       /\ Len(userObj) < StarveMaxUsers
       /\ now = 0
       /\ CreateUser(1, IF Len(userObj) % 2 = 0 THEN ProfileG ELSE ProfileH)
    \/ \E u \in UserIdsOf :
           /\ ~draining
           /\ userObj[u].violations < StarveMaxFlags
           /\ now = 0
           /\ matchingQueue = <<>>
           /\ FlagUser(u)
    \/ \E u \in UserIdsOf, preferences \in FindPrefs :
           /\ ~draining
           /\ ~inQueue(matchingQueue, u)
           /\ pairCount[u] = 0
           /\ AddToQueue(u, preferences)
    \/ ProcessMatchingQueueStart
    \/ ProcessMatchingQueueResume
    \/ Tick(1, StarveMaxTime)

SpecStarve == Init /\ [][NextStarve]_vars

(***************************************************************************)
(* SpecStale: users of unlike profiles queued at different times, whom the  *)
(* match loop pairs at once when they take anyone and leaves waiting when   *)
(* they are picky, swept as they wait.                                      *)
(***************************************************************************)
NextStale ==
    \/ /\ Len(userObj) < StaleMaxUsers
       /\ now = 0
       /\ CreateUser(1, IF Len(userObj) % 2 = 0 THEN ProfileG ELSE ProfileH)
    \/ \E u \in UserIdsOf, preferences \in FindPrefs :
           ~inQueue(matchingQueue, u) /\ AddToQueue(u, preferences)
    \/ CleanupQueue
    \/ ProcessMatchingQueue
    \/ Advance(1, StaleMaxTime)

SpecStale == Init /\ [][NextStale]_vars

(***************************************************************************)
(* SpecProfile: users created with and without a preference, and their     *)
(* profiles updated one attribute at a time.                               *)
(***************************************************************************)
NextProfile ==
    \/ \E s \in Sockets, profile \in {ProfileA, ProfileP} :
           /\ Len(userObj) < ProfileMaxUsers
           /\ getUser(Reg, s) = Null
           /\ CreateUser(s, profile)
    \/ \E s \in Sockets, profileUpdates \in ProfileUpdates :
           UpdateProfile(s, profileUpdates)
    \/ Advance(1, ProfileMaxTime)

SpecProfile == Init /\ [][NextProfile]_vars

(***************************************************************************)
(* SpecNormalize: profiles and preferences inside and outside the domains, *)
(* taken in by createUser, updateProfile and addToQueue.                   *)
(***************************************************************************)
NextNormalize ==
    \/ \E profile \in {ProfileA, ProfileB, ProfileX} :
           /\ Len(userObj) < NormalizeMaxUsers
           /\ CreateUser(Len(userObj) + 1, profile)
    \/ \E s \in Sockets, profileUpdates \in {ProfileB, ProfileX} :
           UpdateProfile(s, profileUpdates)
    \/ \E u \in UserIdsOf, preferences \in {PrefsAny, PrefsPicky, PrefsX} :
           AddToQueue(u, preferences)
    \/ \E u \in UserIdsOf : RemoveFromQueue(u)

SpecNormalize == Init /\ [][NextNormalize]_vars

(***************************************************************************)
(* SpecEmit: the match loop of an engine whose match-found callback is     *)
(* set, over users queued once each.                                       *)
(***************************************************************************)
NextEmit ==
    \/ /\ ~draining
       /\ Len(userObj) < EmitMaxUsers
       /\ now = 0
       /\ CreateUser(1, IF Len(userObj) % 2 = 0 THEN ProfileA ELSE ProfileB)
    \/ \E u \in UserIdsOf, preferences \in FindPrefs :
           /\ ~draining
           /\ ~inQueue(matchingQueue, u)
           /\ pairCount[u] = 0
           /\ AddToQueue(u, preferences)
    \/ ProcessMatchingQueueStart
    \/ ProcessMatchingQueueResumeWith(TRUE)
    \/ Tick(1, EmitMaxTime)

SpecEmit == Init /\ [][NextEmit]_vars

(***************************************************************************)
(* SpecTrust: users flagged until their trust score is 0, queued, and the  *)
(* score of each ordered pair of entries.                                  *)
(***************************************************************************)
NextTrust ==
    \/ /\ Len(userObj) < TrustMaxUsers
       /\ matchingQueue = <<>>
       /\ CreateUser(1, ProfileA)
    \/ \E u \in UserIdsOf :
           /\ userObj[u].violations < TrustMaxFlags
           /\ matchingQueue = <<>>
           /\ FlagUser(u)
    \/ \E u \in UserIdsOf :
           /\ u = Len(matchingQueue) + 1
           /\ AddToQueue(u, PrefsAny)
    \/ \E i, j \in 1..Len(matchingQueue) : CalculateCompatibility(i, j)

SpecTrust == Init /\ [][NextTrust]_vars

(***************************************************************************)
(* SpecReport: rooms reported for every kind of issue by either            *)
(* participant, while active and after they ended.                         *)
(***************************************************************************)
RECURSIVE reportsRecorded(_)
reportsRecorded(chatId) ==
    IF chatId = 0 THEN 0 ELSE Len(chatObj[chatId].reports) + reportsRecorded(chatId - 1)

NextReport ==
    \/ /\ Len(chatObj) < ReportMaxChats
       /\ CreateChat(1, 2, "text")
    \/ \E c \in 1..ReportMaxChats, reporterId \in {1, 2}, issueType \in ReportKinds :
           /\ reportIssueResult(Chat, c) => reportsRecorded(Len(chatObj)) < ReportMaxReports
           /\ ReportIssue(c, reporterId, issueType)
    \/ Advance(1, ReportMaxTime)

SpecReport == Init /\ [][NextReport]_vars

(***************************************************************************)
(* SpecLoop: more than ten picky users, queued once each in the order they *)
(* came in, and the passes of the match loop over them.                    *)
(***************************************************************************)
NextLoop ==
    \/ /\ ~draining
       /\ Len(userObj) < LoopMaxUsers
       /\ now = 0
       /\ CreateUser(1, LoopProfile(Len(userObj) + 1))
    \/ \E u \in UserIdsOf :
           /\ ~draining
           /\ ~inQueue(matchingQueue, u)
           /\ pairCount[u] = 0
           /\ \A v \in 1..(u - 1) : inQueue(matchingQueue, v) \/ pairCount[v] > 0
           /\ AddToQueue(u, PrefsPicky)
    \/ ProcessMatchingQueueStart
    \/ ProcessMatchingQueueResume
    \/ Tick(1, LoopMaxTime)

SpecLoop == Init /\ [][NextLoop]_vars

(***************************************************************************)
(* SpecPriority: the first user flagged before and while it is queued, as  *)
(* its session ages past one hour, with the match loop and the session     *)
(* timers running.                                                         *)
(***************************************************************************)
NextPriority ==
    \/ /\ Len(userObj) < PriorityMaxUsers
       /\ CreateUser(1, ProfileA)
    \/ /\ Len(userObj) >= 1
       /\ userObj[1].violations < PriorityMaxFlags
       /\ FlagUser(1)
    \/ \E u \in UserIdsOf : AddToQueue(u, PrefsAny)
    \/ \E u \in UserIdsOf : inQueue(matchingQueue, u) /\ RemoveFromQueue(u)
    \/ ProcessMatchingQueue
    \/ \E timer \in sessionTimers : SessionTimerFire(timer)
    \/ Advance(30, PriorityMaxTime)

SpecPriority == Init /\ [][NextPriority]_vars

(***************************************************************************)
(* SpecMatch: users of different profiles and preferences, queued in the   *)
(* order they were created in, matched against each other as their wait   *)
(* grows.                                                                  *)
(***************************************************************************)
NextMatch ==
    \/ \E profile \in {ProfileA, ProfileB} :
           /\ Len(userObj) < MatchMaxUsers
           /\ now = 0
           /\ CreateUser(1, profile)
    \/ \E u \in UserIdsOf, preferences \in FindPrefs :
           /\ u = Len(matchingQueue) + 1
           /\ AddToQueue(u, preferences)
    \/ \E u \in UserIdsOf : FindBestMatch(u)
    \/ ProcessMatchingQueue
    \/ Advance(1, MatchMaxTime)

SpecMatch == Init /\ [][NextMatch]_vars

(***************************************************************************)
(* Claims.                                                                 *)
(***************************************************************************)
participantsOf(chatId) == Range(chatObj[chatId].participants)

\* C1: no user is produced as a member of two pairs (returned by findMatch or
\* emitted by the match loop) without having been enqueued again in between.
C1_NoUserInTwoPairs ==
    \A u \in DOMAIN pairCount : pairCount[u] <= 1

\* C2: no user is at once a key of the matching queue and mapped to an active
\* room by the ChatManager.
C2_NotQueuedAndInRoom ==
    \A u \in UserIdsOf : ~(inQueue(matchingQueue, u) /\ getUserCurrentChat(Chat, u) # Null)

\* C3: for every active room, both participants are in the registry and both
\* have currentChatId equal to that room.
C3_ParticipantsBound ==
    \A c \in chats : \A p \in participantsOf(c) :
        /\ getUserById(Reg, p) # Null
        /\ userObj[p].currentChatId = c

\* C5: a session is reachable by its socketId iff it is reachable by its user id,
\* and both look-ups give the same session.
C5_IndicesConsistent ==
    /\ \A s \in Sockets : getUser(Reg, s) # Null =>
           /\ getUserById(Reg, getUser(Reg, s)) = getUser(Reg, s)
           /\ userObj[getUser(Reg, s)].socketId = s
    /\ \A u \in UserIdsOf : getUserById(Reg, u) # Null =>
           getUser(Reg, userObj[u].socketId) = u

\* C6: createUser on a socketId that already has a session fails and leaves the
\* registry unchanged: a session is only ever created on a socketId with none.
C6_CreateOnRegisteredFails ==
    [][Len(userObj') > Len(userObj) =>
          users[userObj'[Len(userObj')].socketId] = Null]_vars

\* C7: createChat does not succeed for a user who is a participant of an active
\* room: every user is a participant of at most one active room, and
\* getUserCurrentChat gives exactly that room.
C7_AtMostOneRoom ==
    \A u \in UserIdsOf :
        LET rooms == {c \in chats : u \in participantsOf(c)} IN
        /\ Cardinality(rooms) <= 1
        /\ \A c \in rooms : getUserCurrentChat(Chat, u) = c

\* C4: in every chat, active or ended, the stored messages carry the sequence
\* numbers 1, 2, ..., n in storage order, whatever calls were accepted or rejected.
C4_SequenceIsPosition ==
    \A c \in ChatIdsOf : \A i \in DOMAIN chatObj[c].messages :
        chatObj[c].messages[i].sequence = i

\* A chat holds two messages and the last addMessage on it was rejected.
C4_Witness ==
    \E c \in ChatIdsOf :
        /\ Len(chatObj[c].messages) >= 2
        /\ lastCall = Call("addMessage", c, FALSE)

\* C8 as stated: every endChat on a chat returns what the first one returned.
C8_SecondEndSameResult ==
    \A c \in DOMAIN endReturns : \A i \in DOMAIN endReturns[c] :
        endReturns[c][i] = endReturns[c][1]

\* C8 as amended: the first endChat on a chat returns true, every later one
\* returns false, and an endChat that returns false changes neither the chats,
\* the user-to-chat map, the history, the counters (totalChats, totalMessages,
\* averageChatDuration) nor the timers.
C8_SecondEndRefused ==
    /\ [](\A c \in DOMAIN endReturns : \A i \in DOMAIN endReturns[c] :
             endReturns[c][i] = (i = 1))
    /\ [][lastCall'.op = "endChat" /\ ~lastCall'.ret => UNCHANGED chatVars]_vars

\* endChat was just called on a chat that had been ended before.
C8_Witness ==
    \E c \in DOMAIN endReturns :
        /\ Len(endReturns[c]) >= 2
        /\ lastCall = Call("endChat", c, FALSE)
        /\ chatObj[c].status = "ended"

\* C9: once a chat is ended, neither participant is mapped to it by the
\* ChatManager and no participant in the registry has it as currentChatId.
C9_EndClearsCurrentChat ==
    \A c \in ChatIdsOf : chatObj[c].status = "ended" =>
        \A p \in participantsOf(c) :
            /\ mapGet(userChats, p) # c
            /\ getUserById(Reg, p) # Null => userObj[p].currentChatId # c

C11_MessageCap ==
    /\ [](\A c \in ChatIdsOf : Len(chatObj[c].messages) <= maxMessagesPerChat)
    /\ [][\A c \in ChatIdsOf :
            /\ chatObj'[c].messages # chatObj[c].messages =>
                  /\ chatObj[c].status = "active"
                  /\ Len(chatObj[c].messages) < maxMessagesPerChat
                  /\ lastCall' = Call("addMessage", c, TRUE)
            /\ (/\ lastCall'.op = "addMessage"
                /\ lastCall'.id = c
                /\ c \in chats
                /\ Len(chatObj[c].messages) = maxMessagesPerChat) =>
                  /\ lastCall'.ret = FALSE
                  /\ chatObj'[c].messages = chatObj[c].messages
                  /\ chatObj'[c].status = "ended"
                  /\ chatObj'[c].endReason = "message_limit_reached"
                  /\ c \notin chats']_vars

\* The addMessage at the limit was refused and ended the chat.
C11_Witness ==
    \E c \in ChatIdsOf :
        /\ Len(chatObj[c].messages) = maxMessagesPerChat
        /\ chatObj[c].status = "ended"
        /\ chatObj[c].endReason = "message_limit_reached"
        /\ lastCall = Call("addMessage", c, FALSE)

\* C12: every stored message's senderId is one of the two participants of
\* the chat that stores it.
C12_SenderIsParticipant ==
    \A c \in ChatIdsOf : \A i \in DOMAIN chatObj[c].messages :
        chatObj[c].messages[i].senderId \in participantsOf(c)

\* C13: the room timeout is absolute: every active chat has a pending timer
\* that ends it no later than maxChatDuration after its createdAt, whatever
\* messages or activity updates occurred in the meantime.
C13_TimeoutIsAbsolute ==
    \A c \in chats :
        \E timer \in chatTimers :
            /\ timer.chatId = c
            /\ timer.deadline <= chatObj[c].createdAt + maxChatDuration

\* C14: the session timer removes a session only when at least
\* defaultSessionTimeout has passed since its lastActivity, whichever call
\* (updateActivity, updateProfile, setCurrentChat, clearCurrentChat,
\* updateStats) set lastActivity.
C14_TimerRemovesOnlyIdle ==
    (lastCall.op = "sessionTimeout" /\ lastCall.ret)
        => now - userObj[lastCall.id].lastActivity >= defaultSessionTimeout

\* C15: cleanupInactiveChats(threshold) ends with reason inactive_timeout
\* exactly the chats whose now - lastActivity exceeds the threshold and
\* returns their number: after the sweep no active chat is idle longer than
\* the threshold, and every chat within the threshold is left unchanged.
C15_SweepEndsExactlyIdle ==
    /\ [](lastCall.op = "cleanupInactiveChats"
            => \A c \in chats : now - chatObj[c].lastActivity <= lastCall.id)
    /\ [][lastCall'.op = "cleanupInactiveChats"
            => /\ \A c \in chats :
                    IF now - chatObj[c].lastActivity > lastCall'.id
                    THEN /\ c \notin chats'
                         /\ chatObj'[c].status = "ended"
                         /\ chatObj'[c].endReason = "inactive_timeout"
                    ELSE /\ c \in chats'
                         /\ chatObj'[c] = chatObj[c]
                         /\ \A u \in participantsOf(c) : mapGet(userChats', u) = c
               /\ \A c \in ChatIdsOf \ chats : chatObj'[c] = chatObj[c]
               /\ lastCall'.ret = Cardinality(chats \ chats')]_vars

C15_Witness ==
    /\ lastCall.op = "cleanupInactiveChats"
    /\ lastCall.ret = 1
    /\ \E c, d \in ChatIdsOf :
        /\ c \notin chats
        /\ chatObj[c].endReason = "inactive_timeout"
        /\ d \in chats
        /\ now - chatObj[d].lastActivity = lastCall.id

\* C16: trustScore stays within [0.0, 1.0] and no call of the UserManager
\* (flagUser, banUser, updateProfile, updateStats, updateActivity,
\* setCurrentChat, clearCurrentChat, removeUser) ever raises it.
C16_TrustNeverRises ==
    /\ [](\A u \in UserIdsOf :
            /\ doubleLeq(double_0, userObj[u].trustScore)
            /\ doubleLeq(userObj[u].trustScore, double_1_0))
    /\ [][\A u \in UserIdsOf :
            doubleLeq(userObj'[u].trustScore, userObj[u].trustScore)]_vars

C16_Witness ==
    \E u \in UserIdsOf :
        /\ userObj[u].trustScore = double_0
        /\ userObj[u].violations = FlagMaxFlags
        /\ lastCall.op = "updateStats"
        /\ lastCall.id = u

\* C17: each flagUser adds one to violations, lowers trustScore by 0.1 floored
\* at 0.0 and bans as soon as violations >= 5 or trustScore <= 0.3; a session
\* flagged five times is banned with a trustScore <= 0.5.
C17_FifthFlagBansAtHalf ==
    /\ [][\A u \in usersByUserId :
            (lastCall'.op = "flagUser" /\ lastCall'.id = u)
                => /\ userObj'[u].violations = userObj[u].violations + 1
                   /\ userObj'[u].trustScore =
                          doubleSubFloor0(userObj[u].trustScore, double_0_1)
                   /\ userObj'[u].isBanned =
                          (\/ userObj[u].isBanned
                           \/ userObj'[u].violations >= 5
                           \/ doubleLeq(userObj'[u].trustScore, double_0_3))]_vars
    /\ [](\A u \in UserIdsOf :
            userObj[u].violations = 5
                => /\ userObj[u].isBanned
                   /\ doubleLeq(userObj[u].trustScore, double_0_5))

\* C18: a ban is never lifted, and a banned user who is not in the matching
\* queue is never added to it.
C18_BannedNeverQueued ==
    [][\A u \in UserIdsOf :
         userObj[u].isBanned
            => /\ userObj'[u].isBanned
               /\ ~inQueue(matchingQueue, u) => ~inQueue(matchingQueue', u)]_vars

\* C19: addToQueue called again for a user who is in the queue changes
\* nothing and returns the entry of the first call, with its queuedAt and
\* priority; no user has two entries, and an entry stays as stored for as
\* long as the user is queued.
C19_EnqueueIdempotent ==
    /\ [](\A i, j \in 1..Len(matchingQueue) :
            matchingQueue[i].userId = matchingQueue[j].userId => i = j)
    /\ [][/\ \A u \in UserIdsOf :
               (inQueue(matchingQueue, u) /\ inQueue(matchingQueue', u))
                   => entryOf(matchingQueue', u) = entryOf(matchingQueue, u)
          /\ (lastCall'.op = "addToQueue" /\ ~lastCall'.ret.thrown)
               => /\ inQueue(matchingQueue', lastCall'.id)
                  /\ lastCall'.ret.entry = entryOf(matchingQueue', lastCall'.id)
                  /\ inQueue(matchingQueue, lastCall'.id)
                       => matchingQueue' = matchingQueue]_vars

C19_Witness ==
    /\ lastCall.op = "addToQueue"
    /\ ~lastCall.ret.thrown
    /\ lastCall.ret.entry.queuedAt < now
    /\ lastCall.ret.entry.priority # calculatePriority(userObj[lastCall.id], now)
    /\ lastCall.ret.entry.preferences # sanitizePreferences(PrefsAny)
    /\ Len(matchingQueue) = QueueMaxUsers

\* C20: the matching queue never holds more than maxQueueSize entries:
\* addToQueue of a user who is not queued throws when the queue is at the
\* limit and leaves the queue unchanged, while addToQueue of a queued user at
\* the limit returns the entry the user has.
C20_QueueCap ==
    /\ [](Len(matchingQueue) <= maxQueueSize)
    /\ [][lastCall'.op = "addToQueue"
            => IF /\ ~inQueue(matchingQueue, lastCall'.id)
                  /\ Len(matchingQueue) >= maxQueueSize
               THEN /\ lastCall'.ret.thrown
                    /\ matchingQueue' = matchingQueue
               ELSE /\ ~lastCall'.ret.thrown
                    /\ inQueue(matchingQueue, lastCall'.id)
                         => /\ lastCall'.ret.entry = entryOf(matchingQueue, lastCall'.id)
                            /\ matchingQueue' = matchingQueue]_vars

C20_Witness ==
    /\ Len(matchingQueue) = maxQueueSize
    /\ lastCall.op = "addToQueue"
    /\ lastCall.ret.thrown
    /\ ~inQueue(matchingQueue, lastCall.id)

\* C21: after removeFromQueue(u) returned, getQueuePosition(u) is -1 and, as
\* long as u is not enqueued again, no findMatch result and no iteration of
\* the match loop pairs u.
C21_CancelledNeverPaired ==
    [][\A u \in UserIdsOf :
         (lastCall.op = "removeFromQueue" /\ lastCall.id = u)
            => /\ getQueuePosition(matchingQueue, u) = -1
               /\ pairCount'[u] <= pairCount[u]]_vars

\* C22: getQueuePosition of a queued user lies in 1..|queue|, the positions of
\* the queued users are a permutation of 1..|queue|, a user of higher
\* priority, or of equal priority and earlier queuedAt, is ranked before the
\* other, and the position of a user who is not queued is -1.
C22_PositionIsRank ==
    /\ \A u \in UserIdsOf :
          IF inQueue(matchingQueue, u)
          THEN getQueuePosition(matchingQueue, u) \in 1..Len(matchingQueue)
          ELSE getQueuePosition(matchingQueue, u) = -1
    /\ \A i, j \in 1..Len(matchingQueue) :
          LET a == matchingQueue[i]
              b == matchingQueue[j]
          IN /\ i # j => getQueuePosition(matchingQueue, a.userId)
                            # getQueuePosition(matchingQueue, b.userId)
             /\ (\/ doubleLess(b.priority, a.priority)
                 \/ a.priority = b.priority /\ a.queuedAt < b.queuedAt)
                   => getQueuePosition(matchingQueue, a.userId)
                         < getQueuePosition(matchingQueue, b.userId)
    /\ lastCall.op = "getQueuePosition"
          => lastCall.ret = getQueuePosition(matchingQueue, lastCall.id)

C22_Witness ==
    /\ Len(matchingQueue) = RankMaxUsers
    /\ lastCall.op = "getQueuePosition"
    /\ lastCall.id = matchingQueue[Len(matchingQueue)].userId
    /\ lastCall.ret = 1
    /\ matchingQueue[Len(matchingQueue)].queuedAt > matchingQueue[1].queuedAt

\* C23: the compatibility score of two queue entries does not depend on the
\* order the entries are given in, and lies between 0 and 1.
C23_ScoreSymmetric ==
    lastCall.op = "calculateCompatibility"
       => LET score == lastCall.ret.score
              swapped == calculateCompatibility(matchingQueue[lastCall.ret.entry2],
                                                matchingQueue[lastCall.ret.entry1])
          IN /\ score = swapped
             /\ doubleLeq(double_0, score)
             /\ doubleLeq(score, double_1_0)

\* A picky entry scored against an easy one of another profile and another
\* trust score.
C23_Witness ==
    /\ lastCall.op = "calculateCompatibility"
    /\ LET entry1 == matchingQueue[lastCall.ret.entry1]
           entry2 == matchingQueue[lastCall.ret.entry2]
       IN /\ entry1.preferences.gender = "female"
          /\ entry2.preferences.gender = "any"
          /\ userObj[entry1.userId].profile # userObj[entry2.userId].profile
          /\ userObj[entry1.userId].trustScore # userObj[entry2.userId].trustScore
          /\ doubleLess(double_0, lastCall.ret.score)
          /\ doubleLess(lastCall.ret.score, double_1_0)

\* C24: findBestMatch on the entry of a queued user never returns that user;
\* what it returns is another queued user whose score meets the requester's
\* threshold and is exceeded by no other candidate's; it returns null exactly
\* when no other queued user meets the threshold.
C24_BestMatchIsMaximal ==
    lastCall.op = "findBestMatch"
       => LET queueEntry == entryOf(matchingQueue, lastCall.id)
              pool == {i \in 1..Len(matchingQueue) :
                          matchingQueue[i].userId # lastCall.id}
          IN /\ lastCall.ret # lastCall.id
             /\ lastCall.ret # Null
                   => /\ \E i \in pool : matchingQueue[i].userId = lastCall.ret
                      /\ isViable(queueEntry, entryOf(matchingQueue, lastCall.ret), now)
                      /\ \A i \in pool :
                            ~scoreGreater(
                                calculateCompatibility(queueEntry, matchingQueue[i]),
                                calculateCompatibility(queueEntry,
                                    entryOf(matchingQueue, lastCall.ret)))
             /\ lastCall.ret = Null
                   <=> \A i \in pool : ~isViable(queueEntry, matchingQueue[i], now)

\* The candidate returned is queued behind a viable candidate of lower score.
C24_Witness ==
    /\ lastCall.op = "findBestMatch"
    /\ lastCall.ret # Null
    /\ LET queueEntry == entryOf(matchingQueue, lastCall.id) IN
       \E i, j \in 1..Len(matchingQueue) :
          /\ i < j
          /\ matchingQueue[j].userId = lastCall.ret
          /\ matchingQueue[i].userId # lastCall.id
          /\ isViable(queueEntry, matchingQueue[i], now)
          /\ scoreGreater(calculateCompatibility(queueEntry, matchingQueue[j]),
                          calculateCompatibility(queueEntry, matchingQueue[i]))

\* max(0.1, 0.3 - 0.02 x waitMinutes), in doubles.
C25_threshold(waitMinutes) ==
    doubleMax(double_0_1,
              doubleSub(double_0_3, doubleMul(double_0_02, doubleOfInt(waitMinutes))))

C25_thresholds == [waitMinutes \in 0..MemoWait |-> C25_threshold(waitMinutes)] @@ <<>>

\* C25: the threshold of an entry is max(0.1, 0.3 - 0.02 x minutes waited):
\* 0.3 at wait 0, 0.24 at 3 minutes, never below 0.1 and never rising as the
\* wait grows; a match loop pass over a pair that scores 0.25 pairs it exactly
\* when the first entry of the pass has waited 3 minutes or more.
C25_ThresholdRelaxes ==
    /\ [](lastCall.op = "getMinimumCompatibility"
            => LET waitMinutes == lastCall.ret.waitMinutes
                   threshold == lastCall.ret.threshold
               IN /\ threshold = tableOr(C25_thresholds, waitMinutes,
                                         C25_threshold(waitMinutes))
                  /\ waitMinutes = 0 => threshold = double_0_3
                  /\ waitMinutes = 3 => threshold = double_0_24
                  /\ doubleLeq(double_0_1, threshold))
    /\ [][/\ \A i \in 1..Len(matchingQueue) :
               matchingQueue' = matchingQueue
                  => doubleLeq(getMinimumCompatibility(matchingQueue[i], now'),
                               getMinimumCompatibility(matchingQueue[i], now))
          /\ (/\ microtasks # <<>>
              /\ microtasks[1].kind = "loop"
              /\ microtasks[1].i = 1
              /\ Len(microtasks[1].queueArray) = 2
              /\ calculateCompatibility(microtasks[1].queueArray[1],
                                        microtasks[1].queueArray[2]) = double_0_25)
                => (pairCount' # pairCount
                       <=> now - microtasks[1].queueArray[1].queuedAt >= 3)]_vars

\* A pass of the match loop has selected the other entry of a pair that scores
\* 0.25, for an entry that has waited 3 minutes.
C25_Witness ==
    /\ microtasks # <<>>
    /\ microtasks[1].kind = "loop"
    /\ microtasks[1].i = 1
    /\ microtasks[1].match # Null
    /\ Len(microtasks[1].queueArray) = 2
    /\ calculateCompatibility(microtasks[1].queueArray[1],
                              microtasks[1].queueArray[2]) = double_0_25
    /\ now - microtasks[1].queueArray[1].queuedAt = 3

\* C26: nobody waits forever in a populated queue: a pass of the match loop
\* over two queued users, started from an entry that has waited until the
\* threshold is at its floor (10 minutes), pairs that entry.  An entry such a
\* pass leaves behind is never paired with the other one, whatever it waits.
C26_LongWaitIsPaired ==
    [][(/\ microtasks # <<>>
        /\ microtasks[1].kind = "loop"
        /\ microtasks[1].i = 1
        /\ Len(microtasks[1].queueArray) = 2
        /\ now - microtasks[1].queueArray[1].queuedAt >= 10)
          => pairCount'[microtasks[1].userId] > pairCount[microtasks[1].userId]]_vars

\* C27: cleanupQueue drops exactly the entries that have waited longer than
\* maxWaitTime (5 minutes): none of those is left, every other entry is kept
\* as it was and in its place, and the count returned is the number dropped.
C27_SweepDropsExactlyStale ==
    [][lastCall'.op = "cleanupQueue"
          => /\ \A i \in 1..Len(matchingQueue') :
                   /\ now - matchingQueue'[i].queuedAt <= maxWaitTime
                   /\ \E j \in 1..Len(matchingQueue) :
                         matchingQueue[j] = matchingQueue'[i]
             /\ \A j \in 1..Len(matchingQueue) :
                   now - matchingQueue[j].queuedAt <= maxWaitTime
                      => \E i \in 1..Len(matchingQueue') :
                            matchingQueue'[i] = matchingQueue[j]
             /\ \A i, k \in 1..Len(matchingQueue') :
                   i < k => \E j, l \in 1..Len(matchingQueue) :
                               /\ j < l
                               /\ matchingQueue[j] = matchingQueue'[i]
                               /\ matchingQueue[l] = matchingQueue'[k]
             /\ lastCall'.ret = Len(matchingQueue) - Len(matchingQueue')]_vars

\* A sweep has dropped one entry and left one that has waited 5 minutes.
C27_Witness ==
    /\ lastCall.op = "cleanupQueue"
    /\ lastCall.ret = 1
    /\ Len(matchingQueue) = 1
    /\ now - matchingQueue[1].queuedAt = maxWaitTime

\* C28: pairing cannot strand a user: whenever two users are removed from the
\* queue as a pair, in the same step the pair is on its way to the server's
\* find-match handler, which opens their room.
C28_PairIsHandedOver ==
    [][\A u \in DOMAIN pairCount :
          pairCount'[u] > pairCount[u]
             => \E k \in 1..Len(microtasks') :
                   /\ microtasks'[k].kind = "handleFindMatch"
                   /\ microtasks'[k].match # Null
                   /\ u \in {microtasks'[k].userId, microtasks'[k].match}]_vars

\* C29 as stated: removeUser deletes the session of the socket from users and
\* usersByUserId, cancels its session timer and returns the removed session;
\* for a socket without a session it returns false and changes nothing.
C29_RemoveReturnsSession ==
    [][lastCall'.op = "removeUser"
          => IF lastCall'.id # Null
             THEN /\ \A s \in Sockets :
                        users'[s] = IF users[s] = lastCall'.id THEN Null ELSE users[s]
                  /\ usersByUserId' = usersByUserId \ {lastCall'.id}
                  /\ sessionTimeouts'[lastCall'.id] = Null
                  /\ \A timer \in sessionTimers' : timer.userId # lastCall'.id
                  /\ lastCall'.ret \notin BOOLEAN
                  /\ lastCall'.ret = userObj[lastCall'.id]
             ELSE /\ lastCall'.ret = FALSE
                  /\ UNCHANGED regVars]_vars

\* C29 amended: as above, but what removeUser returns for a session it removed
\* is true.
C29_RemoveReturnsTrue ==
    [][lastCall'.op = "removeUser"
          => IF lastCall'.id # Null
             THEN /\ \A s \in Sockets :
                        users'[s] = IF users[s] = lastCall'.id THEN Null ELSE users[s]
                  /\ usersByUserId' = usersByUserId \ {lastCall'.id}
                  /\ sessionTimeouts'[lastCall'.id] = Null
                  /\ \A timer \in sessionTimers' : timer.userId # lastCall'.id
                  /\ lastCall'.ret = TRUE
             ELSE /\ lastCall'.ret = FALSE
                  /\ UNCHANGED regVars]_vars

\* The session of a socket has been removed, some time after it was created.
C29_Witness ==
    /\ lastCall.op = "removeUser"
    /\ lastCall.id # Null
    /\ lastCall.ret = TRUE
    /\ now > userObj[lastCall.id].connectionTime
    /\ lastCall.id \notin usersByUserId

\* C30: updateProfile merges: every profile attribute the update mentions
\* takes its sanitized value, every other profile attribute and every
\* preference (the updates mention none) keeps the value it had.
C30_UpdateMerges ==
    [][(lastCall'.op = "updateProfile" /\ lastCall'.id # Null)
          => LET profileUpdates == lastCall'.ret.profileUpdates
                 old == userObj[lastCall'.id]
                 new == userObj'[lastCall'.id]
             IN /\ \A attr \in {"gender", "location", "age"} :
                      new.profile[attr] = IF profileUpdates[attr] # ""
                                          THEN sanitizeProfile(profileUpdates)[attr]
                                          ELSE old.profile[attr]
                /\ new.profile.keywords = IF "keywords" \in DOMAIN profileUpdates
                                          THEN sanitizeProfile(profileUpdates).keywords
                                          ELSE old.profile.keywords
                /\ new.preferences.preferredGender = old.preferences.preferredGender
                /\ new.preferences.preferredAgeRange = old.preferences.preferredAgeRange
                /\ new.preferences.preferredLocation = old.preferences.preferredLocation]_vars

\* C31: whatever the input, a stored profile has its gender and age inside
\* their domains when it has them and at most 10 keywords, and the preferences
\* of a user and of a queue entry have gender and age inside the same domains
\* or "any".
C31_Canonical ==
    /\ \A u \in UserIdsOf :
          /\ userObj[u].profile.gender \in validGenders \cup {""}
          /\ userObj[u].profile.age \in validAges \cup {""}
          /\ Len(userObj[u].profile.keywords) <= 10
          /\ userObj[u].preferences.preferredGender \in validGenders \cup {"any"}
          /\ userObj[u].preferences.preferredAgeRange \in validAges \cup {"any"}
    /\ \A i \in 1..Len(matchingQueue) :
          /\ matchingQueue[i].preferences.gender \in validGenders \cup {"any"}
          /\ matchingQueue[i].preferences.age \in validAges \cup {"any"}

\* C32: when the match-found callback of the match loop is given a pair,
\* neither member of the pair is in the matching queue any more.
C32_EmittedPairIsDequeued ==
    lastCall.op = "onMatchFound"
       => /\ ~lastCall.ret.entry1Queued
          /\ ~lastCall.ret.entry2Queued

\* C33: after a room has ended, no timeout timer armed for that room is
\* pending.
C33_EndStopsTimers ==
    \A chatId \in 1..Len(chatObj) :
       chatObj[chatId].status = "ended"
          => \A timer \in chatTimers : timer.chatId # chatId

\* C34: the trust component of the score of two entries is the mean of the two
\* trust scores times (1 - 0.5 x their difference), a trust score of 0.0
\* included.
C34_TrustComponent ==
    lastCall.op = "calculateCompatibility"
       => LET entry1 == matchingQueue[lastCall.ret.entry1]
              entry2 == matchingQueue[lastCall.ret.entry2]
              trust1 == userObj[entry1.userId].trustScore
              trust2 == userObj[entry2.userId].trustScore
              mean == doubleDiv(doubleAdd(trust1, trust2), double_2_0)
              difference == doubleAbs(doubleSub(trust1, trust2))
          IN calculateTrustCompatibility(entry1, entry2)
                = doubleMul(mean, doubleSub(double_1_0, doubleMul(double_0_5, difference)))

\* The reason a room reported for a kind is ended with.
C35_reportedAs(kind) ==
    CASE kind = "harassment" -> "reported_harassment"
      [] kind = "inappropriate" -> "reported_inappropriate"
      [] kind = "inappropriate_content" -> "reported_inappropriate_content"
      [] kind = "spam" -> "reported_spam"
      [] OTHER -> "reported_other"

\* A reportIssue step, for the kinds that are taken as severe: on an active
\* room the report is recorded; a severe one ends the room at once with the
\* reason reported_<kind> in the name of the reporter, any other leaves it
\* active; on a room that is not active the report is refused and nothing
\* changes.
C35_ReportStep(severe) ==
    lastCall'.op = "reportIssue"
       => LET chatId == lastCall'.id IN
          IF chatId \in chats
          THEN /\ lastCall'.ret = TRUE
               /\ Len(chatObj'[chatId].reports) = Len(chatObj[chatId].reports) + 1
               /\ LET report == chatObj'[chatId].reports[Len(chatObj'[chatId].reports)]
                  IN IF report.issueType \in severe
                     THEN /\ chatId \notin chats'
                          /\ chatObj'[chatId].status = "ended"
                          /\ chatObj'[chatId].endedAt = now
                          /\ chatObj'[chatId].endReason = C35_reportedAs(report.issueType)
                          /\ chatObj'[chatId].endedBy = report.reporterId
                     ELSE /\ chats' = chats
                          /\ userChats' = userChats
                          /\ chatObj'[chatId].status = "active"
          ELSE /\ lastCall'.ret = FALSE
               /\ UNCHANGED chatVars

\* C35 as stated: the severe kinds are harassment, inappropriate and spam.
C35_SevereReportEnds ==
    [][C35_ReportStep({"harassment", "inappropriate", "spam"})]_vars

\* C35 amended: the severe kinds are harassment, inappropriate_content and
\* spam.
C35_SevereReportEndsByName ==
    [][C35_ReportStep({"harassment", "inappropriate_content", "spam"})]_vars

\* A room ended by a report of inappropriate content made by its second
\* participant, after a report of another kind had left it active.
C35_Witness ==
    /\ lastCall.op = "reportIssue"
    /\ lastCall.ret = TRUE
    /\ lastCall.id \in 1..Len(chatObj)
    /\ chatObj[lastCall.id].status = "ended"
    /\ chatObj[lastCall.id].endReason = "reported_inappropriate_content"
    /\ chatObj[lastCall.id].endedBy = 2
    /\ Len(chatObj[lastCall.id].reports) = 2
    /\ chatObj[lastCall.id].reports[1].issueType = "other"

\* C36: a pass of the match loop ranks the queue by wait + 10000 x priority,
\* takes as requesters the first 10 entries at most, each against the entries
\* ranked after it, and at the first match removes that pair and stops: a pass
\* removes no entry or exactly two and leaves every other entry in the queue.
C36_PassRemovesNoneOrPair ==
    /\ [](\A k \in 1..Len(microtasks) :
            microtasks[k].kind = "loop"
               => LET call == microtasks[k] IN
                  /\ call.i \in 1..Min(Len(call.queueArray), 10)
                  /\ call.userId = call.queueArray[call.i].userId
                  /\ \A a \in 1..(Len(call.queueArray) - 1) :
                        doubleLeq(loopKey(call.queueArray[a + 1], now),
                                  loopKey(call.queueArray[a], now))
                  /\ call.match # Null
                        => \E b \in (call.i + 1)..Len(call.queueArray) :
                              call.queueArray[b].userId = call.match)
    /\ [][(microtasks # <<>> /\ microtasks[1].kind = "loop")
            => LET call == microtasks[1]
                   Others(e) == e.userId \notin {call.userId, call.match}
               IN IF call.match # Null
                  THEN /\ matchingQueue' = SelectSeq(matchingQueue, Others)
                       /\ Len(matchingQueue') = Len(matchingQueue) - 2
                       /\ microtasks' = <<>>
                  ELSE /\ matchingQueue' = matchingQueue
                       /\ IF call.i < Min(Len(call.queueArray), 10)
                          THEN /\ Len(microtasks') = 1
                               /\ microtasks'[1].kind = "loop"
                               /\ microtasks'[1].i = call.i + 1
                               /\ microtasks'[1].queueArray = call.queueArray
                          ELSE microtasks' = <<>>]_vars

\* The tenth requester of a pass over twelve entries has found no match, and
\* the eleventh and twelfth entries, which the pass will not take as
\* requesters, would match each other.
C36_Witness ==
    /\ microtasks # <<>>
    /\ microtasks[1].kind = "loop"
    /\ microtasks[1].i = 10
    /\ microtasks[1].match = Null
    /\ Len(microtasks[1].queueArray) = 12
    /\ isViable(microtasks[1].queueArray[11], microtasks[1].queueArray[12], now)

\* 1.0 + (trustScore - 0.5) x 0.5 - 0.1 x violations, plus 0.2 for a young
\* session, kept between 0.1 and 2.0, in doubles.
C37_raw(trustScore, violations) ==
    doubleSub(doubleAdd(double_1_0, doubleMul(doubleSub(trustScore, double_0_5), double_0_5)),
              doubleMul(double_0_1, doubleOfInt(violations)))

C37_kept(raw) ==
    IF doubleLess(raw, double_0_1) THEN double_0_1
    ELSE IF doubleLess(double_2_0, raw) THEN double_2_0
    ELSE raw

C37_priority(trustScore, violations, young) ==
    C37_kept(IF young
             THEN doubleAdd(C37_raw(trustScore, violations), double_0_2)
             ELSE C37_raw(trustScore, violations))

C37_priorities ==
    [k \in {<<trustAfterFlags(i), i, young>> : i \in 0..MemoFlags, young \in BOOLEAN} |->
        C37_priority(k[1], k[2], k[3])] @@ <<>>

\* C37: the priority of an entry is, when the entry is made,
\* 1.0 + (trustScore - 0.5) x 0.5 - 0.1 x violations, plus 0.2 for a session
\* younger than one hour, kept between 0.1 and 2.0; it is between 0.1 and 2.0
\* ever after and does not change while the entry stays queued.
C37_PriorityAtEnqueue ==
    /\ [](\A i \in 1..Len(matchingQueue) :
            /\ doubleLeq(double_0_1, matchingQueue[i].priority)
            /\ doubleLeq(matchingQueue[i].priority, double_2_0))
    /\ [][\A u \in UserIdsOf :
            /\ (inQueue(matchingQueue, u) /\ inQueue(matchingQueue', u))
                  => entryOf(matchingQueue', u).priority
                        = entryOf(matchingQueue, u).priority
            /\ (~inQueue(matchingQueue, u) /\ inQueue(matchingQueue', u))
                  => entryOf(matchingQueue', u).priority
                        = tableOr(C37_priorities,
                                  <<userObj[u].trustScore, userObj[u].violations,
                                    now - userObj[u].connectionTime < 60>>,
                                  C37_priority(userObj[u].trustScore,
                                               userObj[u].violations,
                                               now - userObj[u].connectionTime < 60))]_vars

\* An entry made for a young session without flags keeps its priority 1.45
\* though its user has since been flagged and its session is an hour old.
C37_Witness ==
    /\ Len(matchingQueue) = 1
    /\ matchingQueue[1].priority = double_1_45
    /\ userObj[matchingQueue[1].userId].violations >= 8
    /\ now - userObj[matchingQueue[1].userId].connectionTime >= 60
    /\ calculatePriority(userObj[matchingQueue[1].userId], now) = double_0_1

\* C38: every chat in this.chats is active; an ended chat is returned neither
\* by getChat nor by getUserCurrentChat; getActiveChatCount is the number of
\* chats created minus the number of chats that an endChat call ended.
C38_TableHoldsActiveChats ==
    /\ \A c \in chats : chatObj[c].status = "active"
    /\ \A c \in ChatIdsOf :
           (chatObj[c].status = "ended" \/ \E i \in 1..Len(endReturns[c]) : endReturns[c][i])
              => /\ getChat(Chat, c) = Null
                 /\ \A u \in DOMAIN userChats : getUserCurrentChat(Chat, u) # c
    /\ getActiveChats(Chat) = chats
    /\ getActiveChatCount(Chat)
          = Len(chatObj)
            - Cardinality({c \in ChatIdsOf : \E i \in 1..Len(endReturns[c]) : endReturns[c][i]})

\* A chat was created and its timer has ended it: the count is back to zero.
C38_Witness ==
    /\ lastCall.op = "chatTimeout"
    /\ lastCall.ret = TRUE
    /\ chatObj[lastCall.id].status = "ended"
    /\ getActiveChatCount(Chat) = Len(chatObj) - 1

\* C39: when the timer armed for a user fires, no other user leaves
\* usersByUserId, no socket that held another user loses it, and no other
\* user's record or timer changes.
C39_TimerRemovesOnlyItsSession ==
    [][(lastCall'.op = "sessionTimeout" /\ sessionTimers' # sessionTimers)
          => /\ usersByUserId \ usersByUserId' \subseteq {lastCall'.id}
             /\ \A s \in Sockets : users'[s] # users[s] => users[s] = lastCall'.id
             /\ \A u \in UserIdsOf \ {lastCall'.id} :
                    /\ sessionTimeouts'[u] = sessionTimeouts[u]
                    /\ userObj'[u] = userObj[u]]_vars

\* C40: every session held by the UserManager, under its socket or under its
\* user id, has exactly one pending session timer, and every chat of
\* this.chats has exactly one pending chat timer.
C40_OneTimerEach ==
    /\ \A u \in UserIdsOf :
           (u \in usersByUserId \/ \E s \in Sockets : users[s] = u)
              => Cardinality({timer \in sessionTimers : timer.userId = u}) = 1
    /\ \A c \in chats :
           Cardinality({timer \in chatTimers : timer.chatId = c}) = 1

====
